---- MODULE Spec2Model ----
(***************************************************************************)
(* Connection-lifecycle state machines of the TCP client sketch            *)
(* (src/unnamed/part_000) and of the TCP server sketch                     *)
(* (src/TCP server/TCP server.ino).                                        *)
(*                                                                         *)
(* One loop() pass calls seven procedures in a fixed order; every          *)
(* procedure is one action (run to completion), sequenced by pc.  The      *)
(* drivers (WiFi, WiFiClient, WiFiServer, millis) are the environment:     *)
(* their results are inputs drawn with \E, their state (link status, peer  *)
(* connection, bytes pending) is changed by the environment actions.       *)
(* The variable role selects the sketch; the two sketches use the same     *)
(* global names, which the model shares.                                   *)
(***************************************************************************)
EXTENDS Integers, Sequences, FiniteSets, TLC

VARIABLES
    role,                       \* "client" or "server": which sketch runs
    pc,                         \* the procedure loop() calls next
    now,                        \* millis()
    connectionState,
    wifiConnectTime, clientStopTime, startReadingAt, lastHeartbeat,
    wifiConnections, clientConnections, errors,
    messageCounter,             \* client only
    serverResponse,             \* client only: char [20]
    clientRequest,              \* server only: char [20]
    ConnTriesAfterStateChange,  \* server only
    reportingStartTime,         \* server only
    reportToSerialMonitor,      \* server only
    pin13,                      \* digitalWrite( 13, . ): 'client connected' led
    trace,                      \* last "(S%d)" token printed by changeConnectionState
    wifiStatus,                 \* WiFi.status() == WL_CONNECTED
    peerConnected,              \* client.connected()
    rx,                         \* bytes the peer sent that client.read() has not consumed yet
    tx,                         \* the bytes of the last client.print / client.println
    hist,                       \* observations of the run (history only, never read by the program)
    micros,                     \* micros()
    flow                        \* execFlowPulses (server): its position, its locals, pins 11 and 12

prog == <<connectionState, wifiConnectTime, clientStopTime, startReadingAt, lastHeartbeat,
          wifiConnections, clientConnections, errors, messageCounter, serverResponse,
          clientRequest, ConnTriesAfterStateChange, reportingStartTime,
          reportToSerialMonitor, pin13, trace>>
driver == <<wifiStatus, peerConnected, rx, tx>>
cue == <<micros, flow>>
vars == <<role, pc, now, prog, driver, hist, cue>>

(***************************************************************************)
(* Program constants.                                                      *)
(***************************************************************************)
conn_0_wifiConnectNow == 0
conn_1_wifiDelayConnection == 1
conn_2_wifiConnected == 2
conn_3_clientDelayConnection == 3
conn_4_clientConnected == 4
conn_5_requestSent == 5
conn_5_requestReceived == 5
conn_6_stopClientNow == 6
conn_7_report == 7

wifiConnectDelay == 5000
clientConnectDelay == 100
readingTimeOut == 10000
heartbeatPeriod == 1000
reportingTimeout == 120000
messageCounterInit == 1230001
setupDelay == 2000
bufferSize == 20
expectedWriteCount == 9
pulseWidth == 20
pollReportLimit == 20
pollReportLast == 21

noTrace == -1               \* no "(S%d)" token printed yet
LOW == FALSE
HIGH == TRUE
CR == "\r"
LF == "\n"

(***************************************************************************)
(* Bounds of the model.                                                    *)
(***************************************************************************)
MaxTime == 13001            \* explored clock horizon (ms); far below the wrap of millis()
MaxConnects == 2            \* client.connect() calls / accepted peers in a run
MaxPending == 1             \* bytes pending in the transport's receive queue
MaxExchanges == 3           \* lines the peer sends on one transport session
MaxAcceptPolls == 1         \* consecutive failed accept polls between two resets
WiFiBeginTime == 1          \* ms that pass during WiFi.begin()
MaxMicros == 150            \* explored horizon of the microsecond clock
MaxFlowMicros == 400        \* explored horizon of the microsecond clock in the runs of loop()
MaxWaitLate == 1            \* microseconds by which a busy-wait overshoots its pulseWidth
MaxOverrun == 3             \* bytes behind the end of a buffer up to which the peer fills it
MaxSilenceTime == 124003    \* explored clock horizon (ms) of the runs with a silence period
MaxPollRun == 23            \* consecutive failed accept polls in the runs that count them
MaxBurst == 3               \* bytes pending in the receive queue in the runs with bursts
MaxLine == 3                \* bytes before the line feed in the lines of LinesUpTo
MaxBeatTime == 4003         \* the clock stops at the heartbeat instants up to here (ms)
MaxOverdue == 2             \* the clock is taken near its wrap up to this many ms before the
                            \* instant from which a delay ends at the wrap
MaxWifiAttempts == 3        \* WiFi.begin() calls in the runs at the wrap of the clock
MaxAfterWrap == 1500        \* explored clock horizon (ms) after the wrap of millis()
MaxTwinAccepts == 1         \* accepted peers in the runs that are compared with a twin run

(***************************************************************************)
(* unsigned long (32 bits): millis(), the timestamps and the sums          *)
(* 'timestamp + delay'.  A value v is held as v when v < 2^31 and as       *)
(* v - 2^32 when v >= 2^31, the same 32 bits read as a signed number       *)
(* (millis() = 4294962296 is held as -5000): the integers available end    *)
(* at 2^31 - 1.  Up to MaxTime the held value is the value itself.  The    *)
(* counters stay far below 2^31 within the session bounds and are plain    *)
(* numbers.                                                                *)
(***************************************************************************)
\* the greatest value held as itself: 2^31 - 1
ulongHalf == 2147483647

\* a + d in unsigned long, for d >= 0: the sum modulo 2^32.  In the held values the
\* return from 2^32 - 1 to 0 is the step from -1 to 0; the sum leaves the plain integers
\* where it passes 2^31 - 1, and goes on from -2^31 there.
ulongAdd(a, d) ==
    IF a > 0 /\ a > ulongHalf - d THEN ((a - ulongHalf) - 1) + ((d - ulongHalf) - 1)
    ELSE a + d

\* a < b in unsigned long: a held value below 0 stands for a value of 2^31 or more
ulongLess(a, b) == IF (a < 0) = (b < 0) THEN a < b ELSE b < 0

(***************************************************************************)
(* C strings and number formatting.                                        *)
(***************************************************************************)

\* strcat( s, c ) with c a one-character string
strcat(s, c) == Append(s, c)

\* faulty variant: the copy left out
strcpy_omitted(dst, src) == dst

\* strcpy( dst, src )
strcpy(dst, src) == src

\* strcat( s, c ) on a char [ bufferSize ] that holds s: do the characters and the
\* string terminator still fit ?  The sketches call strcat without this test; when it
\* does not fit, strcat writes past the end of the array.
strcatFits(s) == Len(s) + 1 < bufferSize

\* where loop() stands after strcat( s, c ), with next the procedure that follows the
\* caller.  A strcat that does not fit is undefined behaviour, and the builds differ: the
\* builds that check the write stop the program at the first strcat that does not fit
\* ("undefined": no procedure runs any more); in the others the call returns with the
\* characters stored behind the array and loop() goes on with a string of more than
\* bufferSize - 1 characters, to which the following calls append in the same way.
strcatOutcomes(s, next) ==
    IF Len(s) + 1 = bufferSize THEN {"undefined", next} ELSE {next}

Digit(d) == CASE d = 0 -> "0" [] d = 1 -> "1" [] d = 2 -> "2" [] d = 3 -> "3"
              [] d = 4 -> "4" [] d = 5 -> "5" [] d = 6 -> "6" [] d = 7 -> "7"
              [] d = 8 -> "8" [] d = 9 -> "9"

RECURSIVE Decimal(_)
\* Print::print( unsigned long ): the decimal digits, most significant first
Decimal(n) == IF n < 10 THEN <<Digit(n)>> ELSE Append(Decimal(n \div 10), Digit(n % 10))

\* Print::println( unsigned long ): the digits followed by "\r\n"
println(n) == Decimal(n) \o <<CR, LF>>

\* the byte counts client.print / client.println may report for these bytes: nothing
\* written, one byte short, all written
WriteCounts(bytes) == {0, Len(bytes) - 1, Len(bytes)}

\* faulty variant: an unexpected byte count counted as an error
writeAnomalyCounted_asError(n) == n # expectedWriteCount

\* 'if ( n != 9 ) { Serial.print( ... ) }': an unexpected byte count is printed to the
\* serial monitor, it is not counted as an error
writeAnomalyCounted(n) == FALSE

\* The lines a peer may send: the first request of the client sketch (the server echoes
\* it back), and a short line that ends with a bare line feed.  The peer may stop
\* sending after any byte.
PeerLines == {println(messageCounterInit), <<"7", LF>>}

(***************************************************************************)
(* Initial state: the globals as initialised at lines 51-60 (client) and   *)
(* 53-64 (server); setup() has returned, so millis() is past its delay.    *)
(***************************************************************************)
HistInit ==
    [ wifiAttempts |-> 0,          \* WiFi.begin() calls so far
      wifiAttemptStart |-> 0,      \* millis() when the last WiFi.begin() was called
      wifiAttemptDone |-> 0,       \* millis() when the last WiFi.begin() returned
      wifiAttemptOk |-> TRUE,      \* result of the last WiFi.begin() (TRUE before the first)
      linkCycles |-> 0,            \* association cycles begun: attempts not preceded by a failed one
      connectAttempts |-> 0,       \* client.connect() calls so far
      connectAttemptAt |-> 0,      \* millis() when the last client.connect() was called
      connectFailures |-> 0,       \* failed client.connect() calls so far
      transportStopAt |-> 0,       \* millis() when the last client.stop() or failed connect returned
      stops |-> 0,                 \* client.stop() calls so far
      sessions |-> 0,              \* transport sessions established so far
      sessionErrors |-> 0,         \* errors counted since the current session was established
      sessionExchanges |-> 0,      \* responses sent on the current server session
      noByteYet |-> TRUE,          \* no byte became available since startReadingAt was set
      rxLine |-> <<>>,             \* bytes read from the transport since the last line end
      completed |-> 0,             \* response terminators the client has read so far
      requests |-> <<>>,           \* the requests transmitted, in order: the bytes written, and
                                   \* the number of exchanges completed before
      peerLine |-> <<>>,           \* what remains to be sent of the line the peer is sending
      peerLines |-> 0,             \* lines the peer has begun on the current session
      passErrors |-> 0,            \* errors at the start of the current loop pass
      passMessageCounter |-> 0,    \* messageCounter at the start of the current loop pass
      passRead |-> 0,              \* bytes read from the transport in the current loop pass
      passPeerLoss |-> FALSE,      \* this pass found the peer gone while awaiting the response
      passWritten |-> -1,          \* byte count the transport write of this pass reported (-1: no write)
      peerKind |-> "lines",        \* what the peer sends: "lines" (PeerLines), or without end
                                   \* the one byte "seven" ('7') or "cr" ('\r')
      quiet |-> FALSE,             \* the failures are over: from now on association and
                                   \* connection succeed and the peer answers in time
      quietCounter |-> 0,          \* messageCounter when the failures ended
      beat |-> -1,                 \* the state printed by the last heartbeat line (-1: none yet)
      passPoll |-> "none",         \* what the accept poll of the current pass printed: "none" (no
                                   \* poll), "" (nothing), "<>" or "<...>"
      announced |-> 0,             \* "stopping reporting" announcements printed so far
      phase |-> "single",          \* "single": one run; with a twin run, "lead" (this run
                                   \* steps first) or "follow" (it repeats the twin's step)
      twin |-> <<>>,               \* the state of the twin run (<<>>: there is none)
      scope |-> "run" ]            \* what the run explores: "run" (up to MaxTime), "silence"
                                   \* (up to MaxSilenceTime, the peers sending nothing) or
                                   \* "polls" (up to MaxPollRun failed accept polls in a row),
                                   \* "burst" (up to MaxBurst bytes pending), "assembly" (the
                                   \* peer's lines are those of LinesUpTo(MaxLine)), or "twin"
                                   \* (two runs side by side, MaxTwinAccepts accepted peers), or
                                   \* "wrap" (the clock is taken up to its wrap and beyond)

\* execFlowPulses is not running
FlowIdle == [at |-> "idle", pulses |-> 0, pin |-> 12, i |-> 0, m |-> 0,
             pin11 |-> LOW, pin12 |-> LOW]

\* execFlowPulses( pulses ): the number of 'while ( m + 20 > micros() ) {}' it runs
\* through, one on entry and two for each pulse; 0 stands for one pulse on pin 11
pulseWaits(pulses) == 1 + 2 * (IF pulses = 0 THEN 1 ELSE pulses)

\* the busy-waits of the calls of execFlowPulses made with the arguments args
RECURSIVE flowWaits(_)
flowWaits(args) == IF args = <<>> THEN 0 ELSE pulseWaits(Head(args)) + flowWaits(Tail(args))

\* micros() once busy-waits have been run through from micros() = t: each of them
\* lasts until micros() has advanced by pulseWidth or more, so t + waits * pulseWidth
\* is the earliest reading; readings of up to MaxWaitLate more for each busy-wait are
\* explored.  The microsecond clock is followed up to MaxFlowMicros: the variable
\* micros is Min(micros(), MaxFlowMicros).
microsAfter(t, waits) ==
    LET earliest == t + waits * pulseWidth
        latest == earliest + waits * MaxWaitLate
    IN  {IF u > MaxFlowMicros THEN MaxFlowMicros ELSE u : u \in earliest .. latest}

\* a procedure with its calls of execFlowPulses, in the order of args, all returned:
\* the pulses have been given, pins 11 and 12 are LOW again and the microsecond clock
\* has advanced.  (With the clock held a call does not return: that is SpecPulses.)
execFlowPulses(args) ==
    IF args = <<>> THEN UNCHANGED cue
    ELSE /\ micros' \in microsAfter(micros, flowWaits(args))
         /\ flow' = FlowIdle

Init ==
    /\ role \in {"client", "server"}
    /\ pc = "connectToWiFi"
    /\ now = setupDelay
    /\ connectionState = conn_0_wifiConnectNow
    /\ wifiConnectTime = 0 /\ clientStopTime = 0
    /\ startReadingAt = 0 /\ lastHeartbeat = 0
    /\ wifiConnections = 0 /\ clientConnections = 0 /\ errors = 0
    /\ messageCounter = messageCounterInit
    /\ serverResponse = <<>> /\ clientRequest = <<>>
    /\ ConnTriesAfterStateChange = 0
    /\ reportingStartTime = 0
    /\ reportToSerialMonitor = TRUE
    /\ pin13 = LOW
    /\ trace = noTrace
    /\ wifiStatus = FALSE /\ peerConnected = FALSE
    /\ rx = <<>> /\ tx = <<>>
    /\ hist = [HistInit EXCEPT !.passMessageCounter = messageCounterInit]
    /\ micros = 0 /\ flow = FlowIdle

(***************************************************************************)
(* Helpers shared by both sketches.                                        *)
(***************************************************************************)
\* the clock horizon: once the failures are over, the time one recovery takes is added
Horizon == IF hist.quiet THEN MaxTime + wifiConnectDelay + clientConnectDelay
           ELSE IF hist.scope = "silence" THEN MaxSilenceTime
           ELSE IF hist.scope = "wrap"
                THEN (IF now >= setupDelay THEN setupDelay + WiFiBeginTime ELSE MaxAfterWrap)
           ELSE MaxTime

\* the horizon of a WiFi.begin() call: the recovery may end with one
WifiHorizon == IF hist.quiet THEN Horizon + WiFiBeginTime ELSE Horizon

\* the WiFi.begin() calls explored: those the clock horizon leaves room for, and in the
\* runs at the wrap of the clock MaxWifiAttempts of them
WifiAllowed == hist.scope = "wrap" => hist.wifiAttempts < MaxWifiAttempts

\* the client.connect() calls explored: MaxConnects of them, and after the failures are
\* over those it takes to complete one more exchange
ConnectAllowed ==
    \/ hist.connectAttempts < MaxConnects
    \/ hist.quiet /\ messageCounter = hist.quietCounter

\* faulty variant: the state changed without its token printed
changeConnectionState_silent(newState) ==
    /\ connectionState' = newState
    /\ trace' = trace

\* changeConnectionState( newState ): the only writer of connectionState
changeConnectionState(newState) ==
    /\ connectionState' = newState
    /\ trace' = newState

\* 'wifiConnectTime + wifiConnectDelay > millis()': too early for another attempt
wifiDelayRunning(t) == ulongLess(t, ulongAdd(wifiConnectTime, wifiConnectDelay))

\* faulty variant: the wait for the next connection attempt never ends
clientDelayRunning_forever(t) == TRUE

\* faulty variant: after three errors the next attempt is made without delay
clientDelayRunning_untilErrors(t) == errors < 3 /\ clientStopTime + clientConnectDelay > t

\* 'clientStopTime + clientConnectDelay > millis()': too early for another attempt
clientDelayRunning(t) == ulongLess(t, ulongAdd(clientStopTime, clientConnectDelay))

\* faulty variant: the time-out reached at the deadline itself
readingTimedOut_atDeadline(t) == startReadingAt + readingTimeOut <= t

\* faulty variant: the time out detected one millisecond late
readingTimedOut_late(t) == startReadingAt + readingTimeOut + 1 < t

\* 'startReadingAt + readingTimeOut < millis()': time out reached
readingTimedOut(t) == ulongLess(ulongAdd(startReadingAt, readingTimeOut), t)

\* faulty variant: the heartbeat due at the end of the period itself
heartbeatDue_atPeriod(t) == lastHeartbeat + heartbeatPeriod <= t

\* 'lastHeartbeat + heartbeatPeriod < millis()': heartbeat due
heartbeatDue(t) == ulongLess(ulongAdd(lastHeartbeat, heartbeatPeriod), t)

\* faulty variant: a lost link never re-associated
wifiAttemptNow_noReconnect(state, linkUp, t) ==
    CASE state = conn_0_wifiConnectNow -> TRUE
      [] state = conn_1_wifiDelayConnection -> ~wifiDelayRunning(t)
      [] OTHER -> FALSE

\* faulty variant: the delay between two attempts not awaited
wifiAttemptNow_noDelay(state, linkUp, t) ==
    CASE state = conn_0_wifiConnectNow -> TRUE
      [] state = conn_1_wifiDelayConnection -> TRUE
      [] OTHER -> ~linkUp

\* connectToWiFi's switch: does this call go on to WiFi.begin() ?
wifiAttemptNow(state, linkUp, t) ==
    CASE state = conn_0_wifiConnectNow -> TRUE
      [] state = conn_1_wifiDelayConnection -> ~wifiDelayRunning(t)
      [] OTHER -> ~linkUp /\ ~wifiDelayRunning(t)

\* faulty variant: retries counted too
wifiAttemptCounted_always(state) == TRUE

\* connectToWiFi's switch: does this call count a wifi connection ? (retries do not)
wifiAttemptCounted(state) == state # conn_1_wifiDelayConnection

\* faulty variant: the timestamp taken before WiFi.begin()
wifiAttemptStamp_before(before, after) == before

\* the timestamp connectToWiFi records: millis() read AFTER WiFi.begin() returned
wifiAttemptStamp(before, after) == after

\* history when the transport session is over (closed, or dropped with the link)
HistSessionEnd(h) ==
    [h EXCEPT !.rxLine = <<>>, !.peerLine = <<>>, !.peerLines = 0, !.noByteYet = TRUE,
              !.sessionExchanges = 0]

\* history of a WiFi.begin() call made at time t that returned 'ok' at time t2
HistWifiAttempt(h, t, t2, ok) ==
    [HistSessionEnd(h) EXCEPT !.wifiAttempts = @ + 1,
              !.wifiAttemptStart = t,
              !.wifiAttemptDone = t2,
              !.wifiAttemptOk = ok,
              !.linkCycles = IF h.wifiAttemptOk THEN @ + 1 ELSE @]

\* history of client.read() returning c (the line read is recorded for a peer that
\* sends lines only)
HistRead(h, c) ==
    [h EXCEPT !.passRead = @ + 1,
              !.rxLine = IF h.peerKind # "lines" THEN <<>>
                         ELSE IF h.rxLine # <<>> /\ h.rxLine[Len(h.rxLine)] = LF
                         THEN <<c>> ELSE Append(h.rxLine, c)]

\* history of the start of a loop pass
HistPassStart(h) ==
    [h EXCEPT !.passErrors = errors,
              !.passMessageCounter = messageCounter,
              !.passRead = 0,
              !.passPeerLoss = FALSE,
              !.passWritten = -1,
              !.passPoll = "none"]

(***************************************************************************)
(* Client sketch (src/unnamed/part_000).                                   *)
(***************************************************************************)
connectToWiFi_client ==
    /\ role = "client" /\ pc = "connectToWiFi"
    /\ UNCHANGED cue
    /\ pc' = "connectToServer"
    /\ UNCHANGED <<role, clientStopTime, startReadingAt, lastHeartbeat, clientConnections,
                   errors, messageCounter, serverResponse, clientRequest,
                   ConnTriesAfterStateChange, reportingStartTime, reportToSerialMonitor, tx>>
    /\ IF wifiAttemptNow(connectionState, wifiStatus, now)
       THEN \E ok \in BOOLEAN, d \in {WiFiBeginTime} :
              /\ now + d <= WifiHorizon
              /\ WifiAllowed
              /\ wifiConnections' = IF wifiAttemptCounted(connectionState)
                                    THEN wifiConnections + 1 ELSE wifiConnections
              /\ pin13' = IF connectionState >= conn_2_wifiConnected THEN LOW ELSE pin13
              \* WiFi.disconnect(); WiFi.end(); WiFi.begin(): the module is reset
              /\ wifiStatus' = ok
              /\ peerConnected' = FALSE
              /\ rx' = <<>>
              /\ changeConnectionState(IF ok THEN conn_2_wifiConnected
                                             ELSE conn_1_wifiDelayConnection)
              /\ now' = ulongAdd(now, d)
              /\ wifiConnectTime' = wifiAttemptStamp(now, ulongAdd(now, d))
              /\ hist' = HistWifiAttempt(hist, now, ulongAdd(now, d), ok)
       ELSE /\ UNCHANGED <<now, connectionState, trace, wifiConnectTime, wifiConnections,
                           pin13, wifiStatus, peerConnected, rx, hist>>

\* faulty variant: the lost connection is not closed, the client waits for the next attempt
peerLostState_skipTeardown == conn_3_clientDelayConnection

\* faulty variant: the lost connection is ignored
peerLostState_ignored == conn_5_requestSent

\* connectToServer, client no longer connected: stop connection
peerLostState == conn_6_stopClientNow

\* faulty variant: the peer loss never counted
peerLostCounted_never(r) == FALSE

\* does the sketch count an error when it finds the peer gone ?  connectToServer does
\* (errors++), connectToClient does not
peerLostCounted(r) == r = "client"

\* faulty variant: a failed connection attempt repeated at once
connectFailedState_retryNow == conn_2_wifiConnected

\* connectToServer, client.connect() failed: try again after a delay
connectFailedState == conn_3_clientDelayConnection

\* faulty variant: the state left as it was after the request
requestSentState_unchanged == conn_4_clientConnected

\* sendRequestToServer, request sent: wait for server response
requestSentState == conn_5_requestSent

connectToServer ==
    /\ role = "client" /\ pc = "connectToServer"
    /\ UNCHANGED cue
    /\ pc' = "sendRequestToServer"
    /\ UNCHANGED <<role, wifiConnectTime, startReadingAt, lastHeartbeat, wifiConnections,
                   messageCounter, serverResponse, clientRequest, ConnTriesAfterStateChange,
                   reportingStartTime, reportToSerialMonitor, wifiStatus, tx>>
    /\ \/ \* no wifi yet, or still waiting for the next connection attempt
          /\ \/ connectionState < conn_2_wifiConnected
             \/ connectionState = conn_3_clientDelayConnection /\ clientDelayRunning(now)
          /\ UNCHANGED <<now, connectionState, trace, clientStopTime, clientConnections,
                         errors, pin13, peerConnected, rx, hist>>
       \/ \* client was already connected: still connected ?
          /\ connectionState > conn_3_clientDelayConnection
          /\ IF ~peerConnected
             THEN /\ errors' = IF peerLostCounted(role) THEN errors + 1 ELSE errors
                  /\ changeConnectionState(peerLostState)
             ELSE UNCHANGED <<errors, connectionState, trace>>
          /\ hist' = [hist EXCEPT
                !.sessionErrors = IF errors' # errors THEN @ + 1 ELSE @,
                !.passPeerLoss = (connectionState = conn_5_requestSent
                                  /\ wifiStatus /\ ~peerConnected)]
          /\ UNCHANGED <<now, clientStopTime, clientConnections, pin13, peerConnected, rx>>
       \/ \* try connecting with server now
          /\ \/ connectionState = conn_2_wifiConnected
             \/ connectionState = conn_3_clientDelayConnection /\ ~clientDelayRunning(now)
          /\ \E ok \in BOOLEAN :
               /\ UNCHANGED now
               /\ IF ok
                  THEN /\ ConnectAllowed
                       /\ peerConnected' = TRUE
                       /\ rx' = <<>>
                       /\ pin13' = HIGH
                       /\ clientConnections' = clientConnections + 1
                       /\ changeConnectionState(conn_4_clientConnected)
                       /\ UNCHANGED <<errors, clientStopTime>>
                       /\ hist' = [hist EXCEPT !.connectAttempts = @ + 1,
                                               !.connectAttemptAt = now,
                                               !.sessions = @ + 1,
                                               !.sessionErrors = 0,
                                               !.rxLine = <<>>,
                                               !.peerLine = <<>>,
                                               !.peerLines = 0]
                  ELSE /\ ConnectAllowed
                       /\ peerConnected' = FALSE
                       /\ rx' = <<>>
                       /\ errors' = errors + 1
                       /\ clientStopTime' = now
                       /\ changeConnectionState(connectFailedState)
                       /\ UNCHANGED <<pin13, clientConnections>>
                       /\ hist' = [hist EXCEPT !.connectAttempts = @ + 1,
                                               !.connectAttemptAt = now,
                                               !.connectFailures = @ + 1,
                                               !.transportStopAt = now]

sendRequestToServer ==
    /\ role = "client" /\ pc = "sendRequestToServer"
    /\ UNCHANGED cue
    /\ pc' = "assembleServerResponse"
    /\ UNCHANGED <<role, now, wifiConnectTime, clientStopTime, lastHeartbeat, wifiConnections,
                   clientConnections, messageCounter, clientRequest,
                   ConnTriesAfterStateChange, reportingStartTime, reportToSerialMonitor,
                   pin13, wifiStatus, peerConnected, rx>>
    /\ IF connectionState # conn_4_clientConnected
       THEN UNCHANGED <<connectionState, trace, errors, startReadingAt, serverResponse, tx,
                        hist>>
       ELSE \E n \in WriteCounts(println(messageCounter)) :
            /\ tx' = println(messageCounter)
            /\ errors' = IF writeAnomalyCounted(n) THEN errors + 1 ELSE errors
            /\ serverResponse' = strcpy(serverResponse, <<>>)
            /\ startReadingAt' = now
            /\ changeConnectionState(requestSentState)
            /\ hist' = [hist EXCEPT !.requests = Append(@, [bytes |-> println(messageCounter),
                                                            done |-> hist.completed]),
                                    !.noByteYet = (rx = <<>>),
                                    !.passWritten = n]

\* faulty variant: the receive queue emptied by one read
afterRead_flush(q) == <<>>

\* client.read(): the receive queue after its first byte has been taken
afterRead(q) == Tail(q)

\* faulty variant: only the line feed left out of the response
responseCharKept_allButLF(c) == ~(c = LF)

\* the character test of assembleServerResponse: is c appended to serverResponse ?
responseCharKept(c) == ~((c = CR) \/ (c = LF))

\* faulty variant: the carriage return counted as a line end too
nextMessageCounter_onCR(c, n) == IF (c = CR) \/ (c = LF) THEN n + 1 ELSE n

\* faulty variant: the increment forgotten
nextMessageCounter_never(c, n) == n

\* assembleServerResponse: messageCounter++ when the response has been read completely
nextMessageCounter(c, n) == IF c = LF THEN n + 1 ELSE n

assembleServerResponse ==
    /\ role = "client" /\ pc = "assembleServerResponse"
    /\ UNCHANGED cue
    /\ pc' \in IF /\ connectionState = conn_5_requestSent /\ Len(rx) > 0
                   /\ responseCharKept(Head(rx))
                THEN strcatOutcomes(serverResponse, "stopTCPconnection")
                ELSE {"stopTCPconnection"}
    /\ UNCHANGED <<role, now, wifiConnectTime, clientStopTime, startReadingAt, lastHeartbeat,
                   wifiConnections, clientConnections, clientRequest,
                   ConnTriesAfterStateChange, reportingStartTime, reportToSerialMonitor,
                   pin13, wifiStatus, peerConnected, tx>>
    /\ \/ /\ connectionState # conn_5_requestSent
          /\ UNCHANGED <<connectionState, trace, errors, messageCounter, serverResponse,
                         rx, hist>>
       \/ \* characters available: read one
          /\ connectionState = conn_5_requestSent
          /\ Len(rx) > 0
          /\ LET c == Head(rx) IN
               /\ rx' = afterRead(rx)
               /\ serverResponse' = IF responseCharKept(c) THEN strcat(serverResponse, c)
                                                         ELSE serverResponse
               /\ messageCounter' = nextMessageCounter(c, messageCounter)
               /\ IF c = LF
                  THEN changeConnectionState(conn_6_stopClientNow)
                  ELSE UNCHANGED <<connectionState, trace>>
               /\ hist' = [HistRead(hist, c) EXCEPT
                                       !.completed = IF c = LF THEN @ + 1 ELSE @]
          /\ UNCHANGED errors
       \/ \* no character available and time out reached
          /\ connectionState = conn_5_requestSent
          /\ Len(rx) = 0
          /\ IF readingTimedOut(now)
             THEN /\ errors' = errors + 1
                  /\ changeConnectionState(conn_6_stopClientNow)
                  /\ hist' = [hist EXCEPT !.sessionErrors = @ + 1]
             ELSE UNCHANGED <<errors, connectionState, trace, hist>>
          /\ UNCHANGED <<messageCounter, serverResponse, rx>>

stopTCPconnection_client ==
    /\ role = "client" /\ pc = "stopTCPconnection"
    /\ UNCHANGED cue
    /\ pc' = "lastConnectionReport"
    /\ UNCHANGED <<role, wifiConnectTime, startReadingAt, lastHeartbeat, wifiConnections,
                   clientConnections, errors, messageCounter, serverResponse, clientRequest,
                   ConnTriesAfterStateChange, reportingStartTime, reportToSerialMonitor,
                   wifiStatus, tx>>
    /\ IF connectionState # conn_6_stopClientNow
       THEN UNCHANGED <<now, connectionState, trace, clientStopTime, pin13, peerConnected,
                        rx, hist>>
       ELSE /\ UNCHANGED now
            \* client.stop()
            /\ peerConnected' = FALSE
            /\ rx' = <<>>
            /\ clientStopTime' = now
            /\ pin13' = LOW
            /\ changeConnectionState(conn_7_report)
            /\ hist' = HistSessionEnd([hist EXCEPT !.transportStopAt = now, !.stops = @ + 1])

lastConnectionReport_client ==
    /\ role = "client" /\ pc = "lastConnectionReport"
    /\ UNCHANGED cue
    /\ pc' = "heartbeat"
    /\ UNCHANGED <<role, now, wifiConnectTime, clientStopTime, startReadingAt, lastHeartbeat,
                   wifiConnections, clientConnections, errors, messageCounter,
                   serverResponse, clientRequest, ConnTriesAfterStateChange,
                   reportingStartTime, reportToSerialMonitor, pin13, driver, hist>>
    /\ IF connectionState # conn_7_report
       THEN UNCHANGED <<connectionState, trace>>
       ELSE changeConnectionState(conn_3_clientDelayConnection)

heartbeat_client ==
    /\ role = "client" /\ pc = "heartbeat"
    /\ UNCHANGED cue
    /\ pc' = "connectToWiFi"
    /\ UNCHANGED <<role, now, connectionState, trace, wifiConnectTime, clientStopTime,
                   startReadingAt, wifiConnections, clientConnections, errors,
                   messageCounter, serverResponse, clientRequest, ConnTriesAfterStateChange,
                   reportingStartTime, reportToSerialMonitor, pin13, driver>>
    /\ lastHeartbeat' = IF heartbeatDue(now) THEN now ELSE lastHeartbeat
    \* Serial.print: "Heartbeat - connection state is S<connectionState> at <millis()>"
    /\ hist' = [HistPassStart(hist) EXCEPT
                    !.beat = IF heartbeatDue(now) THEN connectionState ELSE @]

(***************************************************************************)
(* Server sketch (src/TCP server/TCP server.ino).                          *)
(***************************************************************************)
\* faulty variant: CR and LF left out, as the client sketch does
requestCharKept_noTerminators(c) == ~((c = CR) \/ (c = LF))

\* assembleClientRequest: strcat( clientRequest, c ) for every character read
requestCharKept(c) == TRUE

\* faulty variant: the connection stopped after one response, as the client sketch does
responseSentState_stop == conn_6_stopClientNow

\* sendResponseToClient, response sent: wait for next client request
responseSentState == conn_4_clientConnected

\* sendResponseToClient: client.print( clientRequest ) writes the whole string
responseBytes(request) == request

connectToWiFi_server ==
    /\ role = "server" /\ pc = "connectToWiFi"
    /\ UNCHANGED cue
    /\ pc' = "connectToClient"
    /\ UNCHANGED <<role, clientStopTime, startReadingAt, lastHeartbeat, clientConnections,
                   errors, messageCounter, serverResponse, clientRequest, tx>>
    /\ IF wifiAttemptNow(connectionState, wifiStatus, now)
       THEN \E ok \in BOOLEAN, d \in {WiFiBeginTime} :
              /\ now + d <= WifiHorizon
              /\ WifiAllowed
              /\ wifiConnections' = IF wifiAttemptCounted(connectionState)
                                    THEN wifiConnections + 1 ELSE wifiConnections
              /\ pin13' = IF connectionState >= conn_2_wifiConnected THEN LOW ELSE pin13
              /\ reportToSerialMonitor' = TRUE
              /\ reportingStartTime' = now
              \* WiFi.disconnect(); WiFi.end(); WiFi.config(); WiFi.begin(): the module is reset
              /\ wifiStatus' = ok
              /\ peerConnected' = FALSE
              /\ rx' = <<>>
              /\ ConnTriesAfterStateChange' = IF ok THEN 0 ELSE ConnTriesAfterStateChange
              /\ changeConnectionState(IF ok THEN conn_2_wifiConnected
                                             ELSE conn_1_wifiDelayConnection)
              /\ now' = ulongAdd(now, d)
              /\ wifiConnectTime' = wifiAttemptStamp(now, ulongAdd(now, d))
              /\ hist' = HistWifiAttempt(hist, now, ulongAdd(now, d), ok)
       ELSE UNCHANGED <<now, connectionState, trace, wifiConnectTime, wifiConnections,
                        pin13, reportToSerialMonitor, reportingStartTime,
                        ConnTriesAfterStateChange, wifiStatus, peerConnected, rx, hist>>

\* faulty variant: the accept polls reported without a limit
pollReported_always(tries, reporting) == reporting

\* '(ConnTriesAfterStateChange <= 20) && reportToSerialMonitor': is the poll reported ?
pollReported(tries, reporting) == tries <= pollReportLimit /\ reporting

\* what one accept poll prints, ConnTriesAfterStateChange being 'tries' before it
pollPrinted(tries, reporting) ==
    IF pollReported(tries, reporting)
    THEN (IF tries + 1 # pollReportLast THEN "<>" ELSE "<...>")
    ELSE ""

\* the accepted peers explored in a run
AcceptBound == IF hist.scope = "twin" THEN MaxTwinAccepts ELSE MaxConnects

\* the failed accept polls explored in a row
AcceptPollBound == IF hist.scope = "polls" THEN MaxPollRun ELSE MaxAcceptPolls

connectToClient ==
    /\ role = "server" /\ pc = "connectToClient"
    /\ pc' = "assembleClientRequest"
    /\ UNCHANGED <<role, now, wifiConnectTime, clientStopTime, lastHeartbeat, wifiConnections,
                   messageCounter, serverResponse, wifiStatus, tx>>
    /\ \/ \* no wifi yet, or still waiting after client.stop()
          /\ \/ connectionState < conn_2_wifiConnected
             \/ connectionState = conn_3_clientDelayConnection /\ clientDelayRunning(now)
          /\ execFlowPulses(<<>>)
          /\ UNCHANGED <<connectionState, trace, errors, startReadingAt, clientConnections,
                         clientRequest, ConnTriesAfterStateChange, reportingStartTime,
                         reportToSerialMonitor, pin13, peerConnected, rx, hist>>
       \/ \* client was already connected: still connected ?
          /\ connectionState > conn_3_clientDelayConnection
          /\ execFlowPulses(<<1>>)
          /\ IF ~peerConnected
             THEN /\ errors' = IF peerLostCounted(role) THEN errors + 1 ELSE errors
                  /\ changeConnectionState(conn_6_stopClientNow)
             ELSE UNCHANGED <<errors, connectionState, trace>>
          /\ hist' = [hist EXCEPT !.sessionErrors = IF errors' # errors THEN @ + 1 ELSE @]
          /\ UNCHANGED <<startReadingAt, clientConnections, clientRequest,
                         ConnTriesAfterStateChange, reportingStartTime,
                         reportToSerialMonitor, pin13, peerConnected, rx>>
       \/ \* try connecting client now: client = server.available()
          /\ \/ connectionState = conn_2_wifiConnected
             \/ connectionState = conn_3_clientDelayConnection /\ ~clientDelayRunning(now)
          \* execFlowPulses( 3 ) before server.available() and before client.connected()
          /\ execFlowPulses(<<3, 3>>)
          /\ UNCHANGED errors
          /\ LET tries == IF connectionState = conn_3_clientDelayConnection
                          THEN 0 ELSE ConnTriesAfterStateChange
             IN \E accepted \in BOOLEAN :
                  /\ ConnTriesAfterStateChange' = tries + 1
                  /\ peerConnected' = accepted
                  /\ rx' = <<>>
                  /\ IF accepted
                     THEN /\ hist.connectAttempts < AcceptBound
                          /\ reportToSerialMonitor' = TRUE
                          /\ reportingStartTime' = now
                          /\ pin13' = HIGH
                          /\ clientConnections' = clientConnections + 1
                          /\ clientRequest' = strcpy(clientRequest, <<>>)
                          /\ startReadingAt' = now
                          /\ changeConnectionState(conn_4_clientConnected)
                          /\ hist' = [hist EXCEPT !.passPoll = pollPrinted(tries,
                                                                  reportToSerialMonitor),
                                                  !.connectAttempts = @ + 1,
                                                  !.connectAttemptAt = now,
                                                  !.sessions = @ + 1,
                                                  !.sessionErrors = 0,
                                                  !.sessionExchanges = 0,
                                                  !.noByteYet = TRUE,
                                                  !.rxLine = <<>>,
                                                  !.peerLine = <<>>,
                                                  !.peerLines = 0]
                     ELSE /\ tries < AcceptPollBound
                          /\ changeConnectionState(conn_2_wifiConnected)
                          /\ hist' = [hist EXCEPT !.passPoll = pollPrinted(tries,
                                                                  reportToSerialMonitor)]
                          /\ UNCHANGED <<reportToSerialMonitor, reportingStartTime, pin13,
                                         clientConnections, clientRequest, startReadingAt>>

assembleClientRequest ==
    /\ role = "server" /\ pc = "assembleClientRequest"
    /\ pc' \in IF /\ connectionState = conn_4_clientConnected /\ Len(rx) > 0
                   /\ requestCharKept(Head(rx))
                THEN strcatOutcomes(clientRequest, "sendResponseToClient")
                ELSE {"sendResponseToClient"}
    /\ UNCHANGED <<role, now, wifiConnectTime, clientStopTime, startReadingAt, lastHeartbeat,
                   wifiConnections, clientConnections, messageCounter, serverResponse,
                   ConnTriesAfterStateChange, reportingStartTime, reportToSerialMonitor,
                   pin13, wifiStatus, peerConnected, tx>>
    /\ \/ /\ connectionState # conn_4_clientConnected
          /\ execFlowPulses(<<>>)
          /\ UNCHANGED <<connectionState, trace, errors, clientRequest, rx, hist>>
       \/ \* characters available: read one
          /\ connectionState = conn_4_clientConnected
          /\ Len(rx) > 0
          \* execFlowPulses( 2 ) on entry, execFlowPulses( 0 ) before client.read()
          /\ execFlowPulses(<<2, 0>>)
          /\ LET c == Head(rx) IN
               /\ rx' = afterRead(rx)
               /\ clientRequest' = IF requestCharKept(c) THEN strcat(clientRequest, c)
                                                        ELSE clientRequest
               /\ IF c = LF
                  THEN changeConnectionState(conn_5_requestReceived)
                  ELSE UNCHANGED <<connectionState, trace>>
               /\ hist' = HistRead(hist, c)
          /\ UNCHANGED errors
       \/ \* no character available and time out reached
          /\ connectionState = conn_4_clientConnected
          /\ Len(rx) = 0
          /\ execFlowPulses(<<2>>)
          /\ IF readingTimedOut(now)
             THEN /\ errors' = errors + 1
                  /\ changeConnectionState(conn_6_stopClientNow)
                  /\ hist' = [hist EXCEPT !.sessionErrors = @ + 1]
             ELSE UNCHANGED <<errors, connectionState, trace, hist>>
          /\ UNCHANGED <<clientRequest, rx>>

sendResponseToClient ==
    /\ role = "server" /\ pc = "sendResponseToClient"
    /\ UNCHANGED cue
    /\ pc' = "stopTCPconnection"
    /\ UNCHANGED <<role, now, wifiConnectTime, clientStopTime, lastHeartbeat, wifiConnections,
                   clientConnections, messageCounter, serverResponse,
                   ConnTriesAfterStateChange, reportingStartTime, reportToSerialMonitor,
                   pin13, wifiStatus, peerConnected, rx>>
    /\ IF connectionState # conn_5_requestReceived
       THEN UNCHANGED <<connectionState, trace, errors, startReadingAt, clientRequest, tx,
                        hist>>
       ELSE \E n \in WriteCounts(responseBytes(clientRequest)) :
            /\ tx' = responseBytes(clientRequest)
            /\ errors' = IF writeAnomalyCounted(n) THEN errors + 1 ELSE errors
            /\ clientRequest' = strcpy(clientRequest, <<>>)
            /\ startReadingAt' = now
            /\ changeConnectionState(responseSentState)
            /\ hist' = [hist EXCEPT !.sessionExchanges = @ + 1,
                                    !.noByteYet = (rx = <<>>),
                                    !.passWritten = n]

stopTCPconnection_server ==
    /\ role = "server" /\ pc = "stopTCPconnection"
    /\ UNCHANGED cue
    /\ pc' = "lastConnectionReport"
    /\ UNCHANGED <<role, now, wifiConnectTime, startReadingAt, lastHeartbeat, wifiConnections,
                   clientConnections, errors, messageCounter, serverResponse, clientRequest,
                   ConnTriesAfterStateChange, reportingStartTime, reportToSerialMonitor,
                   wifiStatus, tx>>
    /\ IF connectionState # conn_6_stopClientNow
       THEN UNCHANGED <<connectionState, trace, clientStopTime, pin13, peerConnected,
                        rx, hist>>
       ELSE \* client.stop()
            /\ peerConnected' = FALSE
            /\ rx' = <<>>
            /\ clientStopTime' = now
            /\ pin13' = LOW
            /\ changeConnectionState(conn_7_report)
            /\ hist' = HistSessionEnd([hist EXCEPT !.transportStopAt = now, !.stops = @ + 1])

lastConnectionReport_server ==
    /\ role = "server" /\ pc = "lastConnectionReport"
    /\ UNCHANGED cue
    /\ pc' = "heartbeat"
    /\ UNCHANGED <<role, now, wifiConnectTime, clientStopTime, startReadingAt, lastHeartbeat,
                   wifiConnections, clientConnections, errors, messageCounter,
                   serverResponse, clientRequest, ConnTriesAfterStateChange,
                   reportingStartTime, reportToSerialMonitor, pin13, driver, hist>>
    /\ IF connectionState # conn_7_report
       THEN UNCHANGED <<connectionState, trace>>
       ELSE changeConnectionState(conn_3_clientDelayConnection)

\* faulty variant: the reporting time never ends
reportingActive_always(t) == TRUE

\* 'reportingStartTime + reportingTimeout > millis()': heartbeat still reported
reportingActive(t) == ulongLess(t, ulongAdd(reportingStartTime, reportingTimeout))

heartbeat_server ==
    /\ role = "server" /\ pc = "heartbeat"
    \* execFlowPulses( 0 ): flag every passage
    /\ execFlowPulses(<<0>>)
    /\ pc' = "connectToWiFi"
    /\ UNCHANGED <<role, now, connectionState, trace, wifiConnectTime, clientStopTime,
                   startReadingAt, wifiConnections, clientConnections, errors,
                   messageCounter, serverResponse, clientRequest, reportingStartTime,
                   pin13, driver>>
    /\ IF heartbeatDue(now)
       THEN /\ ConnTriesAfterStateChange' = 0
            /\ lastHeartbeat' = IF reportingActive(now) THEN now ELSE lastHeartbeat
            /\ reportToSerialMonitor' = IF reportingActive(now) THEN reportToSerialMonitor
                                                               ELSE FALSE
       ELSE UNCHANGED <<ConnTriesAfterStateChange, lastHeartbeat, reportToSerialMonitor>>
    \* Serial.print: "Heartbeat - connection state is S<connectionState> at <millis()>"
    /\ hist' = [HistPassStart(hist) EXCEPT
                    !.beat = IF heartbeatDue(now) /\ reportingActive(now)
                             THEN connectionState ELSE @,
                    \* Serial.print: "No connection since a while: stopping reporting at"
                    !.announced = IF /\ heartbeatDue(now) /\ ~reportingActive(now)
                                     /\ reportToSerialMonitor
                                  THEN @ + 1 ELSE @]

(***************************************************************************)
(* Environment: the clock and the drivers.  The program observes them only *)
(* when a procedure polls them, so their changes are taken between two     *)
(* loop passes.                                                            *)
(***************************************************************************)
Receiving ==
    \/ role = "client" /\ connectionState = conn_5_requestSent
    \/ role = "server" /\ connectionState = conn_4_clientConnected

\* The clock is sampled at the instants where a wait of the program ends: the end of
\* the wifi delay while the link is down, the end of the client delay while waiting
\* for it, the read time-out (the last instant before it and the first after it)
\* while receiving.
Deadlines ==
    (IF hist.wifiAttempts > 0 /\ ~wifiStatus
     THEN {ulongAdd(wifiConnectTime, wifiConnectDelay)} ELSE {})
    \cup (IF connectionState = conn_3_clientDelayConnection
          THEN {ulongAdd(clientStopTime, clientConnectDelay)} ELSE {})
    \cup (IF Receiving
          THEN {ulongAdd(startReadingAt, readingTimeOut),
                ulongAdd(startReadingAt, readingTimeOut + 1)} ELSE {})

ClockTargets == {t \in Deadlines : t > now /\ t <= Horizon}

millis ==
    /\ pc = "connectToWiFi"
    /\ UNCHANGED cue
    /\ \E t \in ClockTargets : now' = t
    /\ UNCHANGED <<role, pc, prog, driver, hist>>

WiFiLost ==
    /\ pc = "connectToWiFi"
    /\ UNCHANGED cue
    /\ wifiStatus
    /\ wifiStatus' = FALSE
    /\ UNCHANGED <<role, pc, now, prog, peerConnected, rx, tx, hist>>

PeerDisconnect ==
    /\ pc = "connectToWiFi"
    /\ UNCHANGED cue
    /\ peerConnected
    /\ peerConnected' = FALSE
    /\ UNCHANGED <<role, pc, now, prog, wifiStatus, rx, tx, hist>>

\* the lines with up to n bytes, drawn from '7' and '\r', before the line feed
RECURSIVE LinesUpTo(_)
LinesUpTo(n) ==
    IF n = 0 THEN {<<LF>>}
    ELSE LinesUpTo(n - 1)
         \cup {<<c>> \o line : c \in {"7", CR}, line \in {l \in LinesUpTo(n - 1) : Len(l) = n}}

\* the lines a peer sends
LinesOfPeer == IF hist.scope = "assembly" THEN LinesUpTo(MaxLine) ELSE PeerLines

\* the bytes explored pending in the receive queue
PendingBound == IF hist.scope = "burst" THEN MaxBurst ELSE MaxPending

PeerSend ==
    /\ pc = "connectToWiFi"
    /\ UNCHANGED cue
    /\ peerConnected
    /\ Len(rx) < PendingBound
    \* the peer's bytes are explored up to MaxOverrun bytes behind the receiving array
    /\ Len(IF role = "client" THEN serverResponse ELSE clientRequest) + Len(rx) + 2
           - bufferSize <= MaxOverrun
    /\ \E line \in (IF hist.peerLine # <<>> THEN {hist.peerLine}
                     ELSE IF hist.peerKind = "seven" THEN {<<"7">>}
                     ELSE IF hist.peerKind = "cr" THEN {<<CR>>}
                     ELSE IF hist.peerLines < MaxExchanges THEN LinesOfPeer ELSE {}) :
         /\ rx' = Append(rx, Head(line))
         /\ hist' = [hist EXCEPT !.noByteYet = FALSE,
                                 !.peerLine = Tail(line),
                                 !.peerLines = IF hist.peerLine = <<>> /\ hist.peerKind = "lines"
                                               THEN @ + 1 ELSE @]
    /\ UNCHANGED <<role, pc, now, prog, wifiStatus, peerConnected, tx>>

\* both sketches
Next ==
    \/ connectToWiFi_client
    \/ connectToServer
    \/ sendRequestToServer
    \/ assembleServerResponse
    \/ stopTCPconnection_client
    \/ lastConnectionReport_client
    \/ heartbeat_client
    \/ connectToWiFi_server
    \/ connectToClient
    \/ assembleClientRequest
    \/ sendResponseToClient
    \/ stopTCPconnection_server
    \/ lastConnectionReport_server
    \/ heartbeat_server
    \/ millis
    \/ WiFiLost
    \/ PeerDisconnect
    \/ PeerSend

Spec == Init /\ [][Next]_vars

\* the client sketch alone
InitClient == Init /\ role = "client"
NextClient ==
    \/ connectToWiFi_client
    \/ connectToServer
    \/ sendRequestToServer
    \/ assembleServerResponse
    \/ stopTCPconnection_client
    \/ lastConnectionReport_client
    \/ heartbeat_client
    \/ millis
    \/ WiFiLost
    \/ PeerDisconnect
    \/ PeerSend

SpecClient == InitClient /\ [][NextClient]_vars

\* the server sketch alone
InitServer == Init /\ role = "server"
NextServer ==
    \/ connectToWiFi_server
    \/ connectToClient
    \/ assembleClientRequest
    \/ sendResponseToClient
    \/ stopTCPconnection_server
    \/ lastConnectionReport_server
    \/ heartbeat_server
    \/ millis
    \/ WiFiLost
    \/ PeerDisconnect
    \/ PeerSend

SpecServer == InitServer /\ [][NextServer]_vars

(***************************************************************************)
(* execFlowPulses( pulses ) of the server sketch, statement by statement.  *)
(* It is called by connectToClient (1 and 3 pulses), assembleClientRequest *)
(* (2 and 0) and heartbeat (0).  The procedures above take the call as a   *)
(* whole, returned with the clock advanced (execFlowPulses(args)); here it *)
(* is taken statement by statement, with the clock free to stand still.    *)
(***************************************************************************)
\* the arguments of the calls in the sketch
PulseArguments == {0, 1, 2, 3}

\* 'while ( m + 20 > micros() ) {}': the loop goes round again
pulseWaiting(m, t) == m + pulseWidth > t

\* digitalWrite( pin, level ) on pin 11 or 12
FlowWrite(f, level) == IF f.pin = 11 THEN [f EXCEPT !.pin11 = level]
                                     ELSE [f EXCEPT !.pin12 = level]

\* the test of the for loop, with i the value of its counter
FlowLoop(f, i) == [f EXCEPT !.i = i, !.at = IF i <= f.pulses THEN "high" ELSE "return"]

\* entry: pin and pulses chosen, m = micros()
execFlowPulses_enter ==
    /\ flow.at = "call"
    /\ flow' = [flow EXCEPT !.at = "wait",
                            !.pin = IF flow.pulses = 0 THEN 11 ELSE 12,
                            !.pulses = IF flow.pulses = 0 THEN 1 ELSE flow.pulses,
                            !.m = micros]
    /\ UNCHANGED <<role, pc, now, prog, driver, hist, micros>>

\* one of the three 'while ( m + 20 > micros() ) {}' is left
execFlowPulses_wait ==
    /\ flow.at \in {"wait", "waitHigh", "waitLow"}
    /\ ~pulseWaiting(flow.m, micros)
    /\ flow' = CASE flow.at = "wait" -> FlowLoop(flow, 1)
                 [] flow.at = "waitHigh" -> [flow EXCEPT !.at = "low"]
                 [] flow.at = "waitLow" -> FlowLoop(flow, flow.i + 1)
    /\ UNCHANGED <<role, pc, now, prog, driver, hist, micros>>

\* digitalWrite( pin, HIGH ); m = micros()
execFlowPulses_high ==
    /\ flow.at = "high"
    /\ flow' = [FlowWrite(flow, HIGH) EXCEPT !.at = "waitHigh", !.m = micros]
    /\ UNCHANGED <<role, pc, now, prog, driver, hist, micros>>

\* digitalWrite( pin, LOW ); m = micros()
execFlowPulses_low ==
    /\ flow.at = "low"
    /\ flow' = [FlowWrite(flow, LOW) EXCEPT !.at = "waitLow", !.m = micros]
    /\ UNCHANGED <<role, pc, now, prog, driver, hist, micros>>

\* the microsecond clock advances
microsTick ==
    /\ flow.at \notin {"idle", "return"}
    /\ \E d \in {1, pulseWidth} :
         /\ micros + d <= MaxMicros
         /\ micros' = micros + d
    /\ UNCHANGED <<role, pc, now, prog, driver, hist, flow>>

\* the server sketch at a call of execFlowPulses
InitPulses ==
    /\ role = "server"
    /\ pc = "connectToWiFi"
    /\ now = setupDelay
    /\ connectionState = conn_0_wifiConnectNow
    /\ wifiConnectTime = 0 /\ clientStopTime = 0
    /\ startReadingAt = 0 /\ lastHeartbeat = 0
    /\ wifiConnections = 0 /\ clientConnections = 0 /\ errors = 0
    /\ messageCounter = messageCounterInit
    /\ serverResponse = <<>> /\ clientRequest = <<>>
    /\ ConnTriesAfterStateChange = 0
    /\ reportingStartTime = 0
    /\ reportToSerialMonitor = TRUE
    /\ pin13 = LOW
    /\ trace = noTrace
    /\ wifiStatus = FALSE /\ peerConnected = FALSE
    /\ rx = <<>> /\ tx = <<>>
    /\ hist = [HistInit EXCEPT !.passMessageCounter = messageCounterInit]
    /\ micros = 0
    /\ \E k \in PulseArguments : flow = [FlowIdle EXCEPT !.at = "call", !.pulses = k]

NextPulses ==
    \/ execFlowPulses_enter
    \/ execFlowPulses_wait
    \/ execFlowPulses_high
    \/ execFlowPulses_low
    \/ microsTick

SpecPulses == InitPulses /\ [][NextPulses]_vars

\* the call as a whole agrees with its statements: at the return the pins are LOW
\* and micros() has advanced by pulseWidth for each busy-wait at least
FlowReturned ==
    flow.at = "return" => /\ micros >= pulseWaits(flow.pulses) * pulseWidth
                          /\ flow.pin11 = LOW /\ flow.pin12 = LOW

\* one pass of loop() after the other
loop ==
    \/ connectToWiFi_client
    \/ connectToServer
    \/ sendRequestToServer
    \/ assembleServerResponse
    \/ stopTCPconnection_client
    \/ lastConnectionReport_client
    \/ heartbeat_client
    \/ connectToWiFi_server
    \/ connectToClient
    \/ assembleClientRequest
    \/ sendResponseToClient
    \/ stopTCPconnection_server
    \/ lastConnectionReport_server
    \/ heartbeat_server

(***************************************************************************)
(* The heartbeat.  Its period is short against the waits of the state      *)
(* machine, so the clock of the specifications above seldom stops where a  *)
(* heartbeat falls due; here it also stops at the instant a heartbeat      *)
(* period ends and at the first instant after it.                          *)
(***************************************************************************)
BeatDeadlines == {lastHeartbeat + heartbeatPeriod, lastHeartbeat + heartbeatPeriod + 1}

millis_beat ==
    /\ pc = "connectToWiFi"
    /\ UNCHANGED cue
    /\ \E t \in BeatDeadlines : t > now /\ t <= MaxBeatTime /\ now' = t
    /\ UNCHANGED <<role, pc, prog, driver, hist>>

\* the client sketch, the clock stopping at the heartbeat instants too
NextBeatClient ==
    \/ connectToWiFi_client
    \/ connectToServer
    \/ sendRequestToServer
    \/ assembleServerResponse
    \/ stopTCPconnection_client
    \/ lastConnectionReport_client
    \/ heartbeat_client
    \/ millis
    \/ millis_beat
    \/ WiFiLost
    \/ PeerDisconnect
    \/ PeerSend

SpecBeatClient == InitClient /\ [][NextBeatClient]_vars

(***************************************************************************)
(* The server sketch through a silence period: the clock stops at the last *)
(* instant of the reporting time, at its end, and from there on where the  *)
(* next heartbeat falls due; the peers send nothing.                       *)
(***************************************************************************)
SilenceDeadlines ==
    {reportingStartTime + reportingTimeout - 1, reportingStartTime + reportingTimeout}
    \cup (IF now >= reportingStartTime + reportingTimeout - 1
          THEN {lastHeartbeat + heartbeatPeriod + 1} ELSE {})

millis_silence ==
    /\ pc = "connectToWiFi"
    /\ UNCHANGED cue
    /\ \E t \in SilenceDeadlines : t > now /\ t <= Horizon /\ now' = t
    /\ UNCHANGED <<role, pc, prog, driver, hist>>

InitSilence ==
    /\ role = "server"
    /\ pc = "connectToWiFi"
    /\ now = setupDelay
    /\ connectionState = conn_0_wifiConnectNow
    /\ wifiConnectTime = 0 /\ clientStopTime = 0
    /\ startReadingAt = 0 /\ lastHeartbeat = 0
    /\ wifiConnections = 0 /\ clientConnections = 0 /\ errors = 0
    /\ messageCounter = messageCounterInit
    /\ serverResponse = <<>> /\ clientRequest = <<>>
    /\ ConnTriesAfterStateChange = 0
    /\ reportingStartTime = 0
    /\ reportToSerialMonitor = TRUE
    /\ pin13 = LOW
    /\ trace = noTrace
    /\ wifiStatus = FALSE /\ peerConnected = FALSE
    /\ rx = <<>> /\ tx = <<>>
    /\ hist = [HistInit EXCEPT !.passMessageCounter = messageCounterInit,
                               !.scope = "silence"]
    /\ micros = 0 /\ flow = FlowIdle

NextSilence ==
    \/ connectToWiFi_server
    \/ connectToClient
    \/ assembleClientRequest
    \/ sendResponseToClient
    \/ stopTCPconnection_server
    \/ lastConnectionReport_server
    \/ heartbeat_server
    \/ millis_silence
    \/ WiFiLost
    \/ PeerDisconnect

SpecSilence == InitSilence /\ [][NextSilence]_vars

(***************************************************************************)
(* The server sketch polling for a peer many times in a row, the clock     *)
(* stopping at the heartbeat instants, the peers sending nothing.          *)
(***************************************************************************)
InitPolls ==
    /\ role = "server"
    /\ pc = "connectToWiFi"
    /\ now = setupDelay
    /\ connectionState = conn_0_wifiConnectNow
    /\ wifiConnectTime = 0 /\ clientStopTime = 0
    /\ startReadingAt = 0 /\ lastHeartbeat = 0
    /\ wifiConnections = 0 /\ clientConnections = 0 /\ errors = 0
    /\ messageCounter = messageCounterInit
    /\ serverResponse = <<>> /\ clientRequest = <<>>
    /\ ConnTriesAfterStateChange = 0
    /\ reportingStartTime = 0
    /\ reportToSerialMonitor = TRUE
    /\ pin13 = LOW
    /\ trace = noTrace
    /\ wifiStatus = FALSE /\ peerConnected = FALSE
    /\ rx = <<>> /\ tx = <<>>
    /\ hist = [HistInit EXCEPT !.passMessageCounter = messageCounterInit,
                               !.scope = "polls"]
    /\ micros = 0 /\ flow = FlowIdle

NextPolls ==
    \/ connectToWiFi_server
    \/ connectToClient
    \/ assembleClientRequest
    \/ sendResponseToClient
    \/ stopTCPconnection_server
    \/ lastConnectionReport_server
    \/ heartbeat_server
    \/ millis
    \/ millis_beat
    \/ WiFiLost
    \/ PeerDisconnect

SpecPolls == InitPolls /\ [][NextPolls]_vars

(***************************************************************************)
(* The client sketch receiving lines that hold carriage returns anywhere.  *)
(***************************************************************************)
InitAssembly ==
    /\ role = "client"
    /\ pc = "connectToWiFi"
    /\ now = setupDelay
    /\ connectionState = conn_0_wifiConnectNow
    /\ wifiConnectTime = 0 /\ clientStopTime = 0
    /\ startReadingAt = 0 /\ lastHeartbeat = 0
    /\ wifiConnections = 0 /\ clientConnections = 0 /\ errors = 0
    /\ messageCounter = messageCounterInit
    /\ serverResponse = <<>> /\ clientRequest = <<>>
    /\ ConnTriesAfterStateChange = 0
    /\ reportingStartTime = 0
    /\ reportToSerialMonitor = TRUE
    /\ pin13 = LOW
    /\ trace = noTrace
    /\ wifiStatus = FALSE /\ peerConnected = FALSE
    /\ rx = <<>> /\ tx = <<>>
    /\ hist = [HistInit EXCEPT !.passMessageCounter = messageCounterInit,
                               !.scope = "assembly"]
    /\ micros = 0 /\ flow = FlowIdle

SpecAssembly == InitAssembly /\ [][NextClient]_vars

\* either sketch facing a peer that sends one and the same non-terminator byte without
\* end, the link staying associated once it is; loop() keeps being called, the clock
\* keeps advancing and the peer keeps sending
InitFlood ==
    /\ role \in {"client", "server"}
    /\ pc = "connectToWiFi"
    /\ now = setupDelay
    /\ connectionState = conn_0_wifiConnectNow
    /\ wifiConnectTime = 0 /\ clientStopTime = 0
    /\ startReadingAt = 0 /\ lastHeartbeat = 0
    /\ wifiConnections = 0 /\ clientConnections = 0 /\ errors = 0
    /\ messageCounter = messageCounterInit
    /\ serverResponse = <<>> /\ clientRequest = <<>>
    /\ ConnTriesAfterStateChange = 0
    /\ reportingStartTime = 0
    /\ reportToSerialMonitor = TRUE
    /\ pin13 = LOW
    /\ trace = noTrace
    /\ wifiStatus = FALSE /\ peerConnected = FALSE
    /\ rx = <<>> /\ tx = <<>>
    /\ \E kind \in {"seven", "cr"} :
         hist = [HistInit EXCEPT !.passMessageCounter = messageCounterInit,
                                 !.peerKind = kind]
    /\ micros = 0 /\ flow = FlowIdle

NextFlood ==
    \/ connectToWiFi_client
    \/ connectToServer
    \/ sendRequestToServer
    \/ assembleServerResponse
    \/ stopTCPconnection_client
    \/ lastConnectionReport_client
    \/ heartbeat_client
    \/ connectToWiFi_server
    \/ connectToClient
    \/ assembleClientRequest
    \/ sendResponseToClient
    \/ stopTCPconnection_server
    \/ lastConnectionReport_server
    \/ heartbeat_server
    \/ millis
    \/ PeerDisconnect
    \/ PeerSend

SpecFlood ==
    /\ InitFlood /\ [][NextFlood]_vars
    /\ WF_vars(loop) /\ SF_vars(millis) /\ SF_vars(PeerSend)

(***************************************************************************)
(* Either sketch with a peer whose bytes arrive in bursts: up to MaxBurst  *)
(* bytes are pending when the receive procedure runs.                      *)
(***************************************************************************)
InitBurst ==
    /\ role \in {"client", "server"}
    /\ pc = "connectToWiFi"
    /\ now = setupDelay
    /\ connectionState = conn_0_wifiConnectNow
    /\ wifiConnectTime = 0 /\ clientStopTime = 0
    /\ startReadingAt = 0 /\ lastHeartbeat = 0
    /\ wifiConnections = 0 /\ clientConnections = 0 /\ errors = 0
    /\ messageCounter = messageCounterInit
    /\ serverResponse = <<>> /\ clientRequest = <<>>
    /\ ConnTriesAfterStateChange = 0
    /\ reportingStartTime = 0
    /\ reportToSerialMonitor = TRUE
    /\ pin13 = LOW
    /\ trace = noTrace
    /\ wifiStatus = FALSE /\ peerConnected = FALSE
    /\ rx = <<>> /\ tx = <<>>
    /\ hist = [HistInit EXCEPT !.passMessageCounter = messageCounterInit,
                               !.scope = "burst"]
    /\ micros = 0 /\ flow = FlowIdle

SpecBurst == InitBurst /\ [][NextFlood]_vars

(***************************************************************************)
(* The client sketch recovering.  After any history of failures the        *)
(* environment turns favourable (FailuresEnd): from then on WiFi.begin()   *)
(* and client.connect() succeed, link and peer are not lost, and the peer  *)
(* sends its line before the read time-out.  loop() keeps being called,    *)
(* the clock keeps advancing and the peer keeps sending.                   *)
(***************************************************************************)
FailuresEnd ==
    /\ role = "client" /\ pc = "connectToWiFi"
    /\ ~hist.quiet
    /\ hist' = [hist EXCEPT !.quiet = TRUE, !.quietCounter = messageCounter]
    /\ UNCHANGED <<role, pc, now, prog, driver, cue>>

\* WiFi.begin() succeeds once the failures are over
connectToWiFi_recovering ==
    /\ connectToWiFi_client
    /\ hist.quiet /\ hist'.wifiAttempts # hist.wifiAttempts => wifiStatus'

\* client.connect() succeeds once the failures are over
connectToServer_recovering ==
    /\ connectToServer
    /\ hist.quiet /\ hist'.connectAttempts # hist.connectAttempts => peerConnected'

\* the clock does not pass the read time-out while the peer is still to answer
millis_recovering ==
    /\ millis
    /\ hist.quiet /\ Receiving /\ peerConnected => now' <= startReadingAt + readingTimeOut

WiFiLost_before == ~hist.quiet /\ WiFiLost

PeerDisconnect_before == ~hist.quiet /\ PeerDisconnect

loop_recovering ==
    \/ connectToWiFi_recovering
    \/ connectToServer_recovering
    \/ sendRequestToServer
    \/ assembleServerResponse
    \/ stopTCPconnection_client
    \/ lastConnectionReport_client
    \/ heartbeat_client

NextRecover ==
    \/ connectToWiFi_recovering
    \/ connectToServer_recovering
    \/ sendRequestToServer
    \/ assembleServerResponse
    \/ stopTCPconnection_client
    \/ lastConnectionReport_client
    \/ heartbeat_client
    \/ millis_recovering
    \/ WiFiLost_before
    \/ PeerDisconnect_before
    \/ PeerSend
    \/ FailuresEnd

SpecRecover ==
    /\ InitClient /\ [][NextRecover]_vars
    /\ WF_vars(loop_recovering) /\ SF_vars(millis_recovering) /\ SF_vars(PeerSend)

(***************************************************************************)
(* Two runs of one sketch side by side.  The twin run starts with other    *)
(* values in wifiConnections, clientConnections and errors and is kept in  *)
(* hist.twin; the runs take turns: one run takes a step (a procedure of    *)
(* loop(), or a step of the environment), the runs change places, and the  *)
(* other run has to take a step with the same clock values and driver      *)
(* results.  Both runs are steps of the same actions.                      *)
(***************************************************************************)
counterStart == 5           \* the initial value of a counter that does not start at 0

\* the state of the run in the variables
Snapshot ==
    [ role |-> role, pc |-> pc, now |-> now, connectionState |-> connectionState,
      wifiConnectTime |-> wifiConnectTime, clientStopTime |-> clientStopTime,
      startReadingAt |-> startReadingAt, lastHeartbeat |-> lastHeartbeat,
      wifiConnections |-> wifiConnections, clientConnections |-> clientConnections,
      errors |-> errors, messageCounter |-> messageCounter,
      serverResponse |-> serverResponse, clientRequest |-> clientRequest,
      ConnTriesAfterStateChange |-> ConnTriesAfterStateChange,
      reportingStartTime |-> reportingStartTime,
      reportToSerialMonitor |-> reportToSerialMonitor,
      pin13 |-> pin13, trace |-> trace,
      wifiStatus |-> wifiStatus, peerConnected |-> peerConnected, rx |-> rx, tx |-> tx,
      hist |-> [hist EXCEPT !.twin = <<>>, !.phase = "single"],
      micros |-> micros, flow |-> flow ]

\* a state without the three counters and without what the history derives from them
Observable(s) ==
    [s EXCEPT !.wifiConnections = 0, !.clientConnections = 0, !.errors = 0,
              !.hist = [@ EXCEPT !.passErrors = 0]]

\* the two runs are in the same state but for the counters
Aligned == Observable(Snapshot) = Observable(hist.twin)

\* the runs change places
TwinSwap ==
    /\ hist.phase = "lead" /\ ~Aligned
    /\ role' = hist.twin.role /\ pc' = hist.twin.pc /\ now' = hist.twin.now
    /\ connectionState' = hist.twin.connectionState
    /\ wifiConnectTime' = hist.twin.wifiConnectTime
    /\ clientStopTime' = hist.twin.clientStopTime
    /\ startReadingAt' = hist.twin.startReadingAt
    /\ lastHeartbeat' = hist.twin.lastHeartbeat
    /\ wifiConnections' = hist.twin.wifiConnections
    /\ clientConnections' = hist.twin.clientConnections
    /\ errors' = hist.twin.errors
    /\ messageCounter' = hist.twin.messageCounter
    /\ serverResponse' = hist.twin.serverResponse
    /\ clientRequest' = hist.twin.clientRequest
    /\ ConnTriesAfterStateChange' = hist.twin.ConnTriesAfterStateChange
    /\ reportingStartTime' = hist.twin.reportingStartTime
    /\ reportToSerialMonitor' = hist.twin.reportToSerialMonitor
    /\ pin13' = hist.twin.pin13 /\ trace' = hist.twin.trace
    /\ wifiStatus' = hist.twin.wifiStatus /\ peerConnected' = hist.twin.peerConnected
    /\ rx' = hist.twin.rx /\ tx' = hist.twin.tx
    /\ micros' = hist.twin.micros /\ flow' = hist.twin.flow
    /\ hist' = [hist.twin.hist EXCEPT !.twin = Snapshot, !.phase = "follow"]

\* the run that followed leads the next step
TwinTurn ==
    /\ hist.phase = "follow" /\ Aligned
    /\ hist' = [hist EXCEPT !.phase = "lead"]
    /\ UNCHANGED <<role, pc, now, prog, driver, cue>>

\* a step of the leading run: any step of the sketch or of its environment
TwinLeads == hist.phase = "lead" /\ Aligned

\* a step of the following run: one with the clock values and driver results of the
\* step the twin has taken
TwinFollows == hist.phase = "follow" /\ ~Aligned /\ Aligned'

TwinStep == TwinLeads \/ TwinFollows

InitTwin ==
    /\ role \in {"client", "server"}
    /\ pc = "connectToWiFi"
    /\ now = setupDelay
    /\ connectionState = conn_0_wifiConnectNow
    /\ wifiConnectTime = 0 /\ clientStopTime = 0
    /\ startReadingAt = 0 /\ lastHeartbeat = 0
    /\ wifiConnections = 0 /\ clientConnections = 0 /\ errors = 0
    /\ messageCounter = messageCounterInit
    /\ serverResponse = <<>> /\ clientRequest = <<>>
    /\ ConnTriesAfterStateChange = 0
    /\ reportingStartTime = 0
    /\ reportToSerialMonitor = TRUE
    /\ pin13 = LOW
    /\ trace = noTrace
    /\ wifiStatus = FALSE /\ peerConnected = FALSE
    /\ rx = <<>> /\ tx = <<>>
    /\ micros = 0 /\ flow = FlowIdle
    /\ \E w, c, e \in {counterStart} :
          /\ hist = [HistInit EXCEPT
                        !.passMessageCounter = messageCounterInit,
                        !.scope = "twin",
                        !.phase = "lead",
                        !.twin = [ role |-> role, pc |-> pc, now |-> now,
                                   connectionState |-> connectionState,
                                   wifiConnectTime |-> wifiConnectTime,
                                   clientStopTime |-> clientStopTime,
                                   startReadingAt |-> startReadingAt,
                                   lastHeartbeat |-> lastHeartbeat,
                                   wifiConnections |-> w, clientConnections |-> c,
                                   errors |-> e, messageCounter |-> messageCounter,
                                   serverResponse |-> serverResponse,
                                   clientRequest |-> clientRequest,
                                   ConnTriesAfterStateChange |-> ConnTriesAfterStateChange,
                                   reportingStartTime |-> reportingStartTime,
                                   reportToSerialMonitor |-> reportToSerialMonitor,
                                   pin13 |-> pin13, trace |-> trace,
                                   wifiStatus |-> wifiStatus,
                                   peerConnected |-> peerConnected, rx |-> rx, tx |-> tx,
                                   hist |-> [HistInit EXCEPT
                                                !.passMessageCounter = messageCounterInit,
                                                !.scope = "twin",
                                                !.passErrors = e],
                                   micros |-> micros, flow |-> flow ]]

connectToWiFi_twin == connectToWiFi_client /\ TwinStep
connectToServer_twin == connectToServer /\ TwinStep
sendRequestToServer_twin == sendRequestToServer /\ TwinStep
assembleServerResponse_twin == assembleServerResponse /\ TwinStep
stopTCPconnection_twin == stopTCPconnection_client /\ TwinStep
lastConnectionReport_twin == lastConnectionReport_client /\ TwinStep
heartbeat_twin == heartbeat_client /\ TwinStep
connectToWiFi_server_twin == connectToWiFi_server /\ TwinStep
connectToClient_twin == connectToClient /\ TwinStep
assembleClientRequest_twin == assembleClientRequest /\ TwinStep
sendResponseToClient_twin == sendResponseToClient /\ TwinStep
stopTCPconnection_server_twin == stopTCPconnection_server /\ TwinStep
lastConnectionReport_server_twin == lastConnectionReport_server /\ TwinStep
heartbeat_server_twin == heartbeat_server /\ TwinStep
millis_twin == millis /\ TwinStep
WiFiLost_twin == WiFiLost /\ TwinStep
PeerDisconnect_twin == PeerDisconnect /\ TwinStep
PeerSend_twin == PeerSend /\ TwinStep

\* the following run repeats the step of its twin
TwinRepeats == hist.phase = "follow" /\ ~Aligned /\ Next /\ Aligned'

NextTwin ==
    \/ connectToWiFi_twin
    \/ connectToServer_twin
    \/ sendRequestToServer_twin
    \/ assembleServerResponse_twin
    \/ stopTCPconnection_twin
    \/ lastConnectionReport_twin
    \/ heartbeat_twin
    \/ connectToWiFi_server_twin
    \/ connectToClient_twin
    \/ assembleClientRequest_twin
    \/ sendResponseToClient_twin
    \/ stopTCPconnection_server_twin
    \/ lastConnectionReport_server_twin
    \/ heartbeat_server_twin
    \/ millis_twin
    \/ WiFiLost_twin
    \/ PeerDisconnect_twin
    \/ PeerSend_twin
    \/ TwinSwap
    \/ TwinTurn

SpecTwin == InitTwin /\ [][NextTwin]_vars

(***************************************************************************)
(* The client sketch with the clock at its wrap.  millis() returns to 0    *)
(* after 2^32 - 1 (49.7 days after the start).  A run starts as every run  *)
(* of the client does and is taken through its first passes of loop();     *)
(* then the clock is taken to one of TimesBeforeWrap (the passes of the    *)
(* days in between are not followed), and from there on to the deadlines   *)
(* of the waits and to the first instants after the wrap, up to            *)
(* MaxAfterWrap, with loop() and the drivers running as in every run.      *)
(***************************************************************************)
\* the clock has passed through its upper half: its held values are below setupDelay,
\* which the first passes of loop() start from
NearWrap == now < setupDelay

\* the clock values near the wrap that a run is taken to: those from which a delay or
\* a time-out of the sketch ends at the wrap, and up to MaxOverdue ms before them
TimesBeforeWrap ==
    {0 - (wait + k) : wait \in {wifiConnectDelay, clientConnectDelay, readingTimeOut},
                      k \in 0 .. MaxOverdue}

\* the first instants after the wrap
TimesAfterWrap == 0 .. MaxOverdue

InitWrap ==
    /\ role = "client"
    /\ pc = "connectToWiFi"
    /\ now = setupDelay
    /\ connectionState = conn_0_wifiConnectNow
    /\ wifiConnectTime = 0 /\ clientStopTime = 0
    /\ startReadingAt = 0 /\ lastHeartbeat = 0
    /\ wifiConnections = 0 /\ clientConnections = 0 /\ errors = 0
    /\ messageCounter = messageCounterInit
    /\ serverResponse = <<>> /\ clientRequest = <<>>
    /\ ConnTriesAfterStateChange = 0
    /\ reportingStartTime = 0
    /\ reportToSerialMonitor = TRUE
    /\ pin13 = LOW
    /\ trace = noTrace
    /\ wifiStatus = FALSE /\ peerConnected = FALSE
    /\ rx = <<>> /\ tx = <<>>
    /\ hist = [HistInit EXCEPT !.passMessageCounter = messageCounterInit, !.scope = "wrap"]
    /\ micros = 0 /\ flow = FlowIdle

\* millis() advances: to the last seconds before the wrap, then to the deadlines of the
\* waits and over the wrap
millis_wrapping ==
    /\ hist.scope = "wrap" /\ pc = "connectToWiFi"
    /\ UNCHANGED cue
    /\ \E t \in (IF NearWrap THEN {u \in Deadlines \cup TimesAfterWrap : u > now /\ u <= Horizon}
                           ELSE TimesBeforeWrap) : now' = t
    /\ UNCHANGED <<role, pc, prog, driver, hist>>

NextWrap ==
    \/ connectToWiFi_client
    \/ connectToServer
    \/ sendRequestToServer
    \/ assembleServerResponse
    \/ stopTCPconnection_client
    \/ lastConnectionReport_client
    \/ heartbeat_client
    \/ millis_wrapping
    \/ WiFiLost
    \/ PeerDisconnect
    \/ PeerSend

SpecWrap == InitWrap /\ [][NextWrap]_vars

(***************************************************************************)
(* Properties.                                                             *)
(***************************************************************************)
Connected == connectionState \in {conn_4_clientConnected, conn_5_requestSent}

\* this step calls WiFi.begin()
WifiAttemptStep == hist'.wifiAttempts = hist.wifiAttempts + 1

\* this step calls client.connect()
ConnectAttemptStep == role = "client" /\ hist'.connectAttempts = hist.connectAttempts + 1

\* C1 as stated: from a connected state (TransportUp, ExchangePending / request
\* received) the state machine goes nowhere but to a connected state or to Teardown,
\* and from Teardown nowhere but to Report.
C1_TeardownNeverSkipped ==
    [][/\ Connected => connectionState' \in {conn_4_clientConnected, conn_5_requestSent,
                                             conn_6_stopClientNow}
       /\ connectionState = conn_6_stopClientNow
            => connectionState' \in {conn_6_stopClientNow, conn_7_report}]_vars

\* C1 amended: a connected state is left for Teardown, Teardown for Report with the
\* transport closed, and Report for TransportRetryWait; the only other way out of a
\* connected state is connectToWiFi finding the link lost and calling WiFi.begin(),
\* which clears the connected indicator and moves straight to LinkUp or LinkRetryWait.
C1_TeardownSkippedOnlyOnLinkLoss ==
    [][/\ (Connected /\ connectionState' \notin {conn_4_clientConnected, conn_5_requestSent,
                                                 conn_6_stopClientNow})
            => /\ pc = "connectToWiFi" /\ ~wifiStatus /\ WifiAttemptStep
               /\ connectionState' \in {conn_1_wifiDelayConnection, conn_2_wifiConnected}
               /\ pin13' = LOW
       /\ (connectionState = conn_6_stopClientNow /\ connectionState' # connectionState)
            => /\ connectionState' = conn_7_report
               /\ ~peerConnected'
               /\ hist'.stops = hist.stops + 1
       /\ (connectionState = conn_7_report /\ connectionState' # connectionState)
            => connectionState' = conn_3_clientDelayConnection]_vars

\* one session was closed through Teardown and Report, another was dropped by a link
\* re-association
C1_Witness ==
    /\ hist.sessions = 2 /\ hist.stops = 1 /\ hist.wifiAttempts >= 2
    /\ connectionState = conn_3_clientDelayConnection

\* C2: a WiFi.begin() call that is not the first one starts no earlier than
\* wifiConnectDelay after the previous call returned.
C2_LinkRetryDelay ==
    [][(WifiAttemptStep /\ hist.wifiAttempts > 0)
         => hist'.wifiAttemptStart >= hist.wifiAttemptDone + wifiConnectDelay]_vars

\* a second attempt made at the first instant the delay allows
C2_Witness ==
    /\ hist.wifiAttempts = 2
    /\ hist.wifiAttemptStart = setupDelay + WiFiBeginTime + wifiConnectDelay

\* C3: a client.connect() call made after a client.stop() or a failed connect starts
\* no earlier than clientConnectDelay after that stop or failed attempt returned.
C3_TransportRetryDelay ==
    [][(ConnectAttemptStep /\ hist.stops + hist.connectFailures > 0)
         => hist'.connectAttemptAt >= hist.transportStopAt + clientConnectDelay]_vars

\* C4 as stated: when the receive state is left after no byte became available for
\* more than readingTimeOut, it is left for Teardown with the error counter one higher.
C4_TimeoutAlwaysCounted ==
    [][(/\ Receiving /\ hist.noByteYet /\ rx = <<>>
        /\ now > startReadingAt + readingTimeOut
        /\ connectionState' # connectionState)
         => /\ connectionState' = conn_6_stopClientNow
            /\ errors' = errors + 1]_vars

\* C4 amended: when the receive procedure runs in the receive state with no byte
\* available and the time-out passed, the state becomes Teardown and the error counter
\* increases by exactly 1; no transport session counts more than one error.
C4_ReadTimeout ==
    [][/\ (/\ pc \in {"assembleServerResponse", "assembleClientRequest"}
           /\ Receiving /\ rx = <<>>
           /\ now > startReadingAt + readingTimeOut)
            => /\ connectionState' = conn_6_stopClientNow
               /\ errors' = errors + 1
       /\ hist'.sessionErrors <= 1]_vars

\* a session whose read timed out while the peer was still connected
C4_Witness ==
    /\ connectionState = conn_6_stopClientNow
    /\ peerConnected /\ rx = <<>>
    /\ now > startReadingAt + readingTimeOut
    /\ hist.sessionErrors = 1

\* C5: when the server sends its response, clientRequest holds every byte read since
\* the previous line end, CR and LF included, that is a whole line of the peer; and
\* the bytes written to the transport are that line.
C5_ServerRoundTrip ==
    [][(role = "server" /\ connectionState = conn_5_requestReceived
        /\ connectionState' # connectionState)
         => /\ clientRequest = hist.rxLine
            /\ hist.rxLine \in PeerLines
            /\ tx' = hist.rxLine]_vars

\* the line "1230001\r\n" has been echoed
C5_Witness ==
    /\ role = "server"
    /\ tx = <<"1", "2", "3", "0", "0", "0", "1", CR, LF>>
    /\ connectionState = conn_4_clientConnected

\* C6: messageCounter is its initial value plus the number of response terminators
\* read so far.
C6_SequenceCounter ==
    role = "client" => messageCounter = messageCounterInit + hist.completed

\* a completed exchange after a session that ended with an error
C6_Witness ==
    /\ role = "client"
    /\ hist.completed = 1 /\ hist.sessions = 2 /\ errors = 1
    /\ messageCounter = messageCounterInit + 1

\* C7 as stated: no two requests carry the same value.
C7_RequestsDistinct ==
    \A i, j \in DOMAIN hist.requests :
        i # j => hist.requests[i].bytes # hist.requests[j].bytes

\* C7 amended: two requests carry the same value exactly when no exchange was
\* completed between them.
C7_RequestsDistinctAcrossCompletedExchanges ==
    \A i, j \in DOMAIN hist.requests :
        (hist.requests[i].bytes = hist.requests[j].bytes)
            = (hist.requests[i].done = hist.requests[j].done)

\* two requests with a completed exchange between them
C7_Witness ==
    /\ Len(hist.requests) = 2
    /\ hist.requests[1].done # hist.requests[2].done

\* C8: state and counter along an association cycle.  A WiFi.begin() call leads to
\* LinkUp when it succeeds and to LinkRetryWait when it fails; LinkConnectNow and
\* LinkRetryWait are left by nothing else; wifiConnections counts the cycles (the
\* attempts not preceded by a failed attempt), never the retries.
C8_AssociationCycle ==
    [][/\ WifiAttemptStep
            => /\ connectionState' = IF hist'.wifiAttemptOk THEN conn_2_wifiConnected
                                                           ELSE conn_1_wifiDelayConnection
               /\ wifiConnections' = wifiConnections + (IF hist.wifiAttemptOk THEN 1 ELSE 0)
       /\ ~WifiAttemptStep
            => /\ wifiConnections' = wifiConnections
               /\ (connectionState < conn_2_wifiConnected => connectionState' = connectionState)
               /\ connectionState' >= conn_2_wifiConnected
                    => connectionState >= conn_2_wifiConnected
       /\ wifiConnections' = hist'.linkCycles]_vars

\* association failed twice and then succeeded: one connection counted
C8_Witness ==
    /\ hist.wifiAttempts = 3 /\ hist.wifiAttemptOk
    /\ connectionState = conn_2_wifiConnected
    /\ wifiConnections = 1

\* C9: in a pass of the client that finds the peer gone while awaiting the response
\* (link associated), the state is Teardown right after connectToServer, the error
\* counter is one higher than at the start of the pass, no character is read,
\* messageCounter is unchanged, and at the end of the pass the indicator is cleared.
C9_PeerLossMidExchange ==
    (role = "client" /\ hist.passPeerLoss)
        => /\ errors = hist.passErrors + 1
           /\ messageCounter = hist.passMessageCounter
           /\ hist.passRead = 0
           /\ pc \in {"sendRequestToServer", "assembleServerResponse", "stopTCPconnection"}
                => connectionState = conn_6_stopClientNow
           /\ pc = "lastConnectionReport" => connectionState = conn_7_report
           /\ pc \in {"lastConnectionReport", "heartbeat"} => pin13 = LOW /\ ~peerConnected

\* the end of such a pass
C9_Witness ==
    /\ role = "client" /\ hist.passPeerLoss /\ pc = "heartbeat"
    /\ errors = hist.passErrors + 1 /\ pin13 = LOW

\* C10: on the server a received request is always answered (request received is left
\* for TransportUp only, with one more response sent on the session); TransportUp is
\* left for another state only when the peer is gone, the link is lost or the read
\* timed out; clientConnections counts the accepted peers, once each.
C10_ServerSession ==
    [][role = "server"
         => /\ (connectionState = conn_5_requestReceived /\ connectionState' # connectionState)
                 => /\ connectionState' = conn_4_clientConnected
                    /\ hist'.sessionExchanges = hist.sessionExchanges + 1
            /\ (connectionState = conn_4_clientConnected
                /\ connectionState' \notin {conn_4_clientConnected, conn_5_requestReceived})
                 => \/ ~peerConnected
                    \/ ~wifiStatus
                    \/ now > startReadingAt + readingTimeOut
            /\ (Connected /\ connectionState' \in {conn_4_clientConnected,
                                                   conn_5_requestReceived})
                 => clientConnections' = clientConnections
            /\ clientConnections' = hist'.sessions]_vars

\* three requests answered on the first session
C10_Witness ==
    /\ role = "server"
    /\ hist.sessionExchanges = 3 /\ clientConnections = 1
    /\ connectionState = conn_4_clientConnected

\* the tick about to run is not armed: its guard returns at once
TickNotArmed ==
    \/ pc = "connectToWiFi" /\ connectionState = conn_1_wifiDelayConnection
                            /\ wifiConnectTime + wifiConnectDelay > now
    \/ pc \in {"connectToServer", "connectToClient"} /\ connectionState < conn_2_wifiConnected
    \/ pc = "sendRequestToServer" /\ connectionState # conn_4_clientConnected
    \/ pc = "assembleServerResponse" /\ connectionState # conn_5_requestSent
    \/ pc = "assembleClientRequest" /\ connectionState # conn_4_clientConnected
    \/ pc = "sendResponseToClient" /\ connectionState # conn_5_requestReceived
    \/ pc = "stopTCPconnection" /\ connectionState # conn_6_stopClientNow
    \/ pc = "lastConnectionReport" /\ connectionState # conn_7_report

\* C11: a tick invoked while the state machine is not in its armed state changes
\* neither connectionState nor a counter, a timestamp or a buffer (nor any other global
\* of the sketch, nor the clock, nor the drivers).
C11_NoOpTicks ==
    [][(TickNotArmed /\ pc' # pc) => UNCHANGED <<prog, now, driver>>]_vars

\* second pass in LinkRetryWait, the delay still running: connectToWiFi returned at once
\* and so did every tick up to stopTCPconnection
C11_Witness ==
    /\ pc = "lastConnectionReport"
    /\ connectionState = conn_1_wifiDelayConnection
    /\ wifiDelayRunning(now)
    /\ lastHeartbeat = now /\ hist.wifiAttempts = 1

\* the inbound buffer of the sketch that runs
Buffer == IF role = "client" THEN serverResponse ELSE clientRequest

\* C17: the inbound buffer is empty whenever a receive phase is entered (client:
\* ExchangePending; server: TransportUp after an accept or after a response), and it
\* goes from non-empty to empty at no other step.
C17_BufferReset ==
    [][/\ (~Receiving /\ Receiving') => Buffer' = <<>>
       /\ (Buffer # <<>> /\ Buffer' = <<>>) => (~Receiving /\ Receiving')]_vars

\* the server waits for a request on its second session, the first one having ended
\* with a read time-out
C17_Witness ==
    /\ role = "server" /\ connectionState = conn_4_clientConnected
    /\ clientRequest = <<>>
    /\ hist.sessions = 2 /\ errors = 1

\* C18: the client transmits a request only in TransportUp, one at a time, and outside
\* the instant between connectToServer and sendRequestToServer the number of requests
\* transmitted equals clientConnections.
C18_OneRequestPerSession ==
    [][role = "client"
         => /\ Len(hist'.requests) # Len(hist.requests)
                 => /\ pc = "sendRequestToServer"
                    /\ connectionState = conn_4_clientConnected
                    /\ Len(hist'.requests) = Len(hist.requests) + 1
            /\ pc' # "sendRequestToServer" => Len(hist'.requests) = clientConnections']_vars

\* end of a pass, two sessions established and two requests transmitted
C18_Witness ==
    /\ role = "client" /\ pc = "connectToWiFi"
    /\ clientConnections = 2 /\ Len(hist.requests) = 2

\* C19: outcome of a client.connect() call.  Failure: errors + 1, clientStopTime set to
\* the current time, clientConnections unchanged, state TransportRetryWait.  Success:
\* clientConnections + 1, errors and clientStopTime unchanged, indicator set, state
\* TransportUp.
C19_ConnectOutcome ==
    [][ConnectAttemptStep
         => IF hist'.connectFailures # hist.connectFailures
            THEN /\ errors' = errors + 1
                 /\ clientStopTime' = now'
                 /\ clientConnections' = clientConnections
                 /\ connectionState' = conn_3_clientDelayConnection
                 /\ ~peerConnected'
            ELSE /\ clientConnections' = clientConnections + 1
                 /\ errors' = errors
                 /\ clientStopTime' = clientStopTime
                 /\ pin13' = HIGH
                 /\ connectionState' = conn_4_clientConnected
                 /\ peerConnected']_vars

\* a failed attempt followed, after the delay, by a successful one
C19_Witness ==
    /\ role = "client" /\ connectionState = conn_4_clientConnected
    /\ hist.connectFailures = 1 /\ hist.sessions = 1
    /\ errors = 1 /\ clientConnections = 1 /\ pin13 = HIGH
    /\ now >= clientStopTime + clientConnectDelay

\* the liveness poll of the transport tick finds the peer gone in a connected state
PeerLossStep ==
    /\ pc \in {"connectToServer", "connectToClient"} /\ pc' # pc
    /\ connectionState > conn_3_clientDelayConnection
    /\ ~peerConnected

\* C20 as stated: in both roles a peer found gone counts one error and leads to Teardown.
C20_PeerLossCountedInBothRoles ==
    [][PeerLossStep => /\ errors' = errors + 1
                       /\ connectionState' = conn_6_stopClientNow]_vars

\* C20 amended: a peer found gone leads to Teardown in both roles; the client counts one
\* error, the server counts none.
C20_PeerLossCountedByClientOnly ==
    [][PeerLossStep => /\ connectionState' = conn_6_stopClientNow
                       /\ errors' = errors + (IF role = "client" THEN 1 ELSE 0)]_vars

\* the server found its peer gone: Teardown, no error counted
C20_Witness ==
    /\ role = "server" /\ pc = "assembleClientRequest"
    /\ connectionState = conn_6_stopClientNow
    /\ wifiStatus /\ ~peerConnected
    /\ errors = 0 /\ clientConnections = 1

\* this step is the transport write of the sketch that runs
WriteStep ==
    /\ pc' # pc
    /\ \/ role = "client" /\ pc = "sendRequestToServer"
                          /\ connectionState = conn_4_clientConnected
       \/ role = "server" /\ pc = "sendResponseToClient"
                          /\ connectionState = conn_5_requestReceived

\* C13: whatever byte count the transport write reports, the error counter is
\* unchanged, the write is made once, the inbound buffer is emptied, startReadingAt is
\* set to the current time and the state becomes the receive state (client:
\* ExchangePending, server: TransportUp); a byte count is reported by a write step only.
C13_ShortWrite ==
    [][/\ WriteStep
            => /\ hist'.passWritten \in 0..bufferSize
               /\ errors' = errors
               /\ Buffer' = <<>>
               /\ startReadingAt' = now
               /\ connectionState' = IF role = "client" THEN conn_5_requestSent
                                                        ELSE conn_4_clientConnected
               /\ role = "client" => Len(hist'.requests) = Len(hist.requests) + 1
               /\ role = "server" => hist'.sessionExchanges = hist.sessionExchanges + 1
       /\ (hist'.passWritten # hist.passWritten /\ hist'.passWritten # -1) => WriteStep]_vars

\* the request write reported no byte written: the client awaits the response
C13_Witness ==
    /\ role = "client" /\ pc = "assembleServerResponse"
    /\ hist.passWritten = 0 /\ tx = println(messageCounterInit)
    /\ connectionState = conn_5_requestSent /\ errors = 0

\* C15: the inbound buffers (capacity bufferSize, string terminator included) never
\* hold more than bufferSize - 1 characters.
C15_BufferBounded ==
    /\ Len(serverResponse) <= bufferSize - 1
    /\ Len(clientRequest) <= bufferSize - 1

\* an inbound buffer holds more characters than its array has room for
BufferOverrun == Len(serverResponse) > bufferSize - 1 \/ Len(clientRequest) > bufferSize - 1

\* C16: every receive phase ends in Teardown, whatever the peer sends.  Stated for the
\* receive phases whose time-out lies within the explored clock horizon, so that the
\* clock does pass it; a receive phase in which the sketch wrote past the end of its
\* buffer counts as ended at that write.
C16_ExchangeTerminates ==
    (Receiving /\ startReadingAt + readingTimeOut < MaxTime)
        ~> (connectionState = conn_6_stopClientNow \/ BufferOverrun)

\* C12: no tick waits for a clock to advance: wherever execution stands inside a tick,
\* it goes on with the clocks held at their current value.  The ticks of loop() are one
\* step each in this model and hold no loop; execFlowPulses is the only code of the
\* sketches with loops, and the claim says of each of them that it is not waiting.
C12_TicksNeverWait ==
    flow.at \in {"wait", "waitHigh", "waitLow"} => ~pulseWaiting(flow.m, micros)

\* C14: self-healing of the client: whatever failures came before, once association and
\* connection succeed and the peer answers each request with a line ended by LF, the
\* client completes another exchange (messageCounter is incremented again)
C14_SelfHealing == hist.quiet ~> messageCounter > hist.quietCounter

\* an exchange completed after the failures of every kind: a failed association, a failed
\* connection and a counted error on a session
C14_Witness ==
    /\ hist.quiet /\ messageCounter > hist.quietCounter
    /\ hist.wifiAttempts > hist.linkCycles
    /\ hist.connectFailures > 0

\* the receive procedure is about to run in the receive state with no byte available
ReceiveTickIdle ==
    /\ pc \in {"assembleServerResponse", "assembleClientRequest"}
    /\ Receiving /\ rx = <<>>

\* C21 as stated: with no byte available the time-out is classified (errors + 1, Teardown)
\* on the tick at which now >= startReadingAt + readingTimeOut, equality included, and on
\* no tick before
C21_TimeoutFromDeadline ==
    [][ReceiveTickIdle =>
         IF now >= startReadingAt + readingTimeOut
         THEN connectionState' = conn_6_stopClientNow /\ errors' = errors + 1
         ELSE connectionState' = connectionState /\ errors' = errors]_vars

\* C21 amended: with no byte available the time-out is classified (errors + 1, Teardown)
\* on the tick at which now > startReadingAt + readingTimeOut, and on no tick with
\* now <= startReadingAt + readingTimeOut: at the deadline itself nothing happens
C21_TimeoutAfterDeadline ==
    [][ReceiveTickIdle =>
         IF now > startReadingAt + readingTimeOut
         THEN connectionState' = conn_6_stopClientNow /\ errors' = errors + 1
         ELSE connectionState' = connectionState /\ errors' = errors]_vars

\* the receive procedure has run at the deadline itself with no byte available, and has
\* left state and error counter as they were
C21_Witness ==
    /\ pc = "stopTCPconnection"
    /\ Receiving
    /\ rx = <<>> /\ peerConnected /\ hist.passRead = 0
    /\ now = startReadingAt + readingTimeOut
    /\ errors = hist.passErrors

\* what the client's heartbeat must leave alone: connectionState, the counters, the other
\* timestamps and the inbound buffer
HeartbeatKeeps ==
    UNCHANGED <<connectionState, wifiConnections, clientConnections, errors, messageCounter,
                wifiConnectTime, clientStopTime, startReadingAt, serverResponse>>

\* C22 as stated: the client's heartbeat fires if and only if
\* now >= lastHeartbeat + heartbeatPeriod; firing, it prints the current state and sets
\* lastHeartbeat to now; fired or not, it changes nothing else of the state machine
C22_HeartbeatFromPeriod ==
    [][role = "client" /\ pc = "heartbeat" =>
         /\ IF now >= lastHeartbeat + heartbeatPeriod
            THEN lastHeartbeat' = now /\ hist'.beat = connectionState
            ELSE lastHeartbeat' = lastHeartbeat /\ hist'.beat = hist.beat
         /\ HeartbeatKeeps]_vars

\* C22 amended: the client's heartbeat fires if and only if
\* now > lastHeartbeat + heartbeatPeriod (not yet at the end of the period itself);
\* firing, it prints the current state and sets lastHeartbeat to now; fired or not, it
\* changes nothing else of the state machine
C22_HeartbeatAfterPeriod ==
    [][role = "client" /\ pc = "heartbeat" =>
         /\ IF now > lastHeartbeat + heartbeatPeriod
            THEN lastHeartbeat' = now /\ hist'.beat = connectionState
            ELSE lastHeartbeat' = lastHeartbeat /\ hist'.beat = hist.beat
         /\ HeartbeatKeeps]_vars

\* a pass of the client that ran its heartbeat exactly at the end of the period, without
\* a line printed, after an earlier heartbeat had printed one while a response was awaited
C22_Witness ==
    /\ role = "client" /\ pc = "connectToWiFi"
    /\ now = lastHeartbeat + heartbeatPeriod
    /\ hist.beat = conn_5_requestSent
    /\ hist.passRead = 0 /\ hist.passWritten = -1
    /\ lastHeartbeat > setupDelay + WiFiBeginTime

\* the silence has lasted reportingTimeout: no association attempt and no accepted peer
\* re-triggered reportingStartTime for that long
Silent == now >= reportingStartTime + reportingTimeout

\* a step that re-triggers reportingStartTime: an association attempt or an accepted peer
Retrigger == hist'.wifiAttempts # hist.wifiAttempts \/ hist'.sessions # hist.sessions

\* C23: on the server, once the silence has lasted reportingTimeout no heartbeat line is
\* printed any more; the announcement of the suppression is printed by the first heartbeat
\* due in the silence and by no other step, so once per silence period; reporting is
\* switched on again, and reportingStartTime set, only by an association attempt or an
\* accepted peer
C23_HeartbeatSuppression ==
    [][role = "server" =>
         /\ pc = "heartbeat" /\ Silent
              => lastHeartbeat' = lastHeartbeat /\ hist'.beat = hist.beat
         /\ pc = "heartbeat" /\ Silent /\ heartbeatDue(now) /\ reportToSerialMonitor
              => ~reportToSerialMonitor' /\ hist'.announced = hist.announced + 1
         /\ hist'.announced # hist.announced
              => /\ pc = "heartbeat" /\ Silent /\ heartbeatDue(now)
                 /\ reportToSerialMonitor /\ ~reportToSerialMonitor'
         /\ reportToSerialMonitor /\ ~reportToSerialMonitor'
              => hist'.announced # hist.announced
         /\ ~reportToSerialMonitor /\ reportToSerialMonitor' => Retrigger
         /\ reportingStartTime' # reportingStartTime => Retrigger
         /\ Retrigger => reportingStartTime' = now /\ reportToSerialMonitor']_vars

\* heartbeat lines resumed after a suppression: the suppression was announced in a silence
\* period, a peer was accepted after it, and the heartbeat printed a line again
C23_Witness ==
    /\ role = "server" /\ pc = "connectToWiFi"
    /\ hist.announced = 1
    /\ reportToSerialMonitor
    /\ reportingStartTime >= setupDelay + reportingTimeout
    /\ lastHeartbeat >= reportingStartTime
    /\ hist.sessions > 0
    /\ hist.beat = conn_4_clientConnected

\* a step of the server that makes an accept poll
AcceptPollStep == role = "server" /\ hist'.passPoll # "none" /\ hist.passPoll = "none"

\* the steps the claim lets reset ConnTriesAfterStateChange: a successful link-up, and
\* the transition from TransportRetryWait to LinkUp at the end of the client delay
PollCountReset ==
    \/ hist'.wifiAttempts # hist.wifiAttempts /\ wifiStatus'
    \/ /\ pc = "connectToClient" /\ connectionState = conn_3_clientDelayConnection
       /\ ~clientDelayRunning(now)

\* the counter goes on counting: one more with every poll, unchanged by any other step
PollCountContinues ==
    ConnTriesAfterStateChange' = IF AcceptPollStep THEN ConnTriesAfterStateChange + 1
                                                   ELSE ConnTriesAfterStateChange

\* a poll made with the counter above 20 prints nothing
PollSuppressed ==
    AcceptPollStep /\ ConnTriesAfterStateChange' > pollReportLast => hist'.passPoll = ""

\* C24 as stated: on the server, once ConnTriesAfterStateChange > 20 the output of the
\* accept polls stays suppressed until a successful link-up or the transition from
\* TransportRetryWait to LinkUp resets the counter; nothing else resets the counter
C24_PollsSuppressedUntilTransition ==
    [][role = "server" =>
         /\ PollSuppressed
         /\ PollCountContinues \/ PollCountReset]_vars

\* C24 amended: on the server, once ConnTriesAfterStateChange > 20 the output of the
\* accept polls stays suppressed until the counter is reset; the counter is reset by a
\* successful link-up, by the transition from TransportRetryWait to LinkUp, and by every
\* heartbeat that is due; a poll prints if and only if the counter is at most 20 before
\* it and reporting is on
C24_PollsSuppressedUntilHeartbeat ==
    [][role = "server" =>
         /\ PollSuppressed
         /\ AcceptPollStep =>
              (hist'.passPoll # "" <=> /\ ConnTriesAfterStateChange' <= pollReportLast
                                       /\ reportToSerialMonitor)
         /\ \/ PollCountContinues
            \/ PollCountReset
            \/ pc = "heartbeat" /\ heartbeatDue(now)]_vars

\* the 23rd failed poll in a row within one heartbeat period: nothing is printed although
\* reporting is on
C24_Witness ==
    /\ role = "server" /\ pc = "assembleClientRequest"
    /\ connectionState = conn_2_wifiConnected
    /\ ConnTriesAfterStateChange > pollReportLast + 1
    /\ hist.passPoll = ""
    /\ reportToSerialMonitor

\* is s a sequence of whole lines of the peer ?
RECURSIVE IsLines(_)
IsLines(s) ==
    \/ s = <<>>
    \/ \E line \in PeerLines :
         /\ Len(line) <= Len(s)
         /\ SubSeq(s, 1, Len(line)) = line
         /\ IsLines(SubSeq(s, Len(line) + 1, Len(s)))

\* the bytes read of the line that is being received
LineSoFar ==
    IF hist.rxLine # <<>> /\ hist.rxLine[Len(hist.rxLine)] = LF THEN <<>> ELSE hist.rxLine

\* what has been read of the line being received, followed by the bytes pending and by
\* what the peer has still to send of its line, are whole lines of the peer
NoByteLost == IsLines(LineSoFar \o rx \o hist.peerLine)

\* a step that reads from the transport
ReadStep == hist'.passRead # hist.passRead /\ hist'.passRead > 0

\* C25: in both roles at most one byte is read per loop pass, by the receive procedure in
\* the receive state only, and it is the oldest byte pending: the queue loses its first
\* byte and nothing else, so that across the passes no byte of a line is skipped or read
\* twice
C25_OneCharacterPerPass ==
    [][/\ hist'.passRead <= 1
       /\ ReadStep =>
            /\ pc \in {"assembleServerResponse", "assembleClientRequest"}
            /\ Receiving
            /\ rx # <<>> /\ rx' = Tail(rx)
            /\ hist'.rxLine[Len(hist'.rxLine)] = Head(rx)
       /\ pc \in {"assembleServerResponse", "assembleClientRequest"} /\ ~ReadStep
            => rx' = rx
       /\ NoByteLost']_vars

\* a byte read in a pass while two more were pending, in the middle of a line
C25_Witness ==
    /\ pc \in {"stopTCPconnection", "sendResponseToClient"}
    /\ hist.passRead = 1
    /\ Len(rx) = 2
    /\ Len(LineSoFar) > 2
    /\ Receiving

\* the client reads the line feed that ends the response
ResponseEndStep ==
    /\ role = "client" /\ pc = "assembleServerResponse"
    /\ connectionState = conn_5_requestSent
    /\ rx # <<>> /\ Head(rx) = LF

\* the bytes of a line before its line feed
BeforeLF(line) == SubSeq(line, 1, Len(line) - 1)

\* b without the carriage return at its end, if there is one
WithoutFinalCR(b) ==
    IF b # <<>> /\ b[Len(b)] = CR THEN SubSeq(b, 1, Len(b) - 1) ELSE b

\* b without any carriage return
WithoutCR(b) == SelectSeq(b, LAMBDA c : c # CR)

\* C26 as stated: when the client reads the line feed, serverResponse holds the bytes
\* received before it with only the carriage return immediately before the line feed
\* removed; a carriage return elsewhere is kept
C26_ResponseWithoutFinalCR ==
    [][ResponseEndStep =>
         serverResponse' = WithoutFinalCR(BeforeLF(hist'.rxLine))]_vars

\* C26 amended: when the client reads the line feed, serverResponse holds the bytes
\* received before it with every carriage return removed, wherever it stands
C26_ResponseWithoutCR ==
    [][ResponseEndStep =>
         serverResponse' = WithoutCR(BeforeLF(hist'.rxLine))]_vars

\* the line "7\r7\n" has been received: the response is "77"
C26_Witness ==
    /\ role = "client" /\ pc = "stopTCPconnection"
    /\ connectionState = conn_6_stopClientNow
    /\ hist.rxLine = <<"7", CR, "7", LF>>
    /\ serverResponse = <<"7", "7">>

\* connectToWiFi runs in a state at or beyond LinkUp
LinkTickBeyondLinkUp ==
    /\ pc = "connectToWiFi" /\ pc' # pc
    /\ connectionState >= conn_2_wifiConnected

\* C27: in the states at or beyond LinkUp, connectToWiFi changes nothing while the link
\* is associated, and nothing while the link is lost and
\* now < wifiConnectTime + wifiConnectDelay; otherwise it counts a wifi connection, clears
\* the connected indicator, makes one association attempt, goes to LinkUp if that
\* succeeds and to LinkRetryWait if not, and sets wifiConnectTime to the time after the
\* attempt
C27_LinkLossHandling ==
    [][LinkTickBeyondLinkUp =>
         IF wifiStatus \/ now < wifiConnectTime + wifiConnectDelay
         THEN UNCHANGED <<now, prog, driver>>
              /\ hist'.wifiAttempts = hist.wifiAttempts
         ELSE /\ wifiConnections' = wifiConnections + 1
              /\ pin13' = LOW
              /\ hist'.wifiAttempts = hist.wifiAttempts + 1
              /\ connectionState' = IF wifiStatus' THEN conn_2_wifiConnected
                                                   ELSE conn_1_wifiDelayConnection
              /\ now' > now
              /\ wifiConnectTime' = now']_vars

\* a lost link re-associated exactly when the delay after the first association ended
C27_Witness ==
    /\ pc \in {"connectToServer", "connectToClient"}
    /\ hist.wifiAttempts = 2 /\ hist.linkCycles = 2
    /\ wifiConnections = 2
    /\ hist.wifiAttemptStart = setupDelay + WiFiBeginTime + wifiConnectDelay
    /\ wifiConnectTime = now
    /\ connectionState = conn_1_wifiDelayConnection

\* the eight states of the enumeration
ConnectionStates == conn_0_wifiConnectNow .. conn_7_report

\* C28: connectionState is one of the eight states; it changes only together with the
\* printing of the token of the new state, so that once a state change has been made the
\* last token printed names the current state (before the first change no token has been
\* printed and the state is the initial one)
C28_TracedStateChanges ==
    [][/\ connectionState' \in ConnectionStates
       /\ connectionState' # connectionState => trace' = connectionState'
       /\ trace' # trace => trace' = connectionState'
       /\ IF trace' = noTrace
          THEN connectionState' = conn_0_wifiConnectNow /\ hist'.wifiAttempts = 0
          ELSE trace' = connectionState']_vars

\* the report state entered and its token printed, after a session that was closed
C28_Witness ==
    /\ pc = "lastConnectionReport"
    /\ connectionState = conn_7_report /\ trace = conn_7_report
    /\ hist.stops > 0

\* a step of one run (the runs do not change places)
RunStep == ~(hist.phase = "lead" /\ hist'.phase = "follow")

\* the run that has to repeat the step of its twin can do so: it has a step with the
\* same clock values and driver results that ends in the same state but for the counters
TwinCanRepeat == hist.phase = "follow" /\ ~Aligned => ENABLED TwinRepeats

\* C29: wifiConnections, clientConnections and errors never decrease, and they do not
\* influence the control flow: two runs that differ only in the initial values of the
\* three counters and receive the same clock values and driver results go through the
\* same connection states, timestamps and transmitted bytes (whatever step one run
\* takes, the other run takes it too and ends in the same state but for the counters).
C29_CountersAreDiagnostics ==
    /\ [][RunStep => /\ wifiConnections' >= wifiConnections
                     /\ clientConnections' >= clientConnections
                     /\ errors' >= errors]_vars
    /\ []TwinCanRepeat

\* both runs have counted an association, a connection and an error, and have sent bytes
C29_Witness ==
    /\ hist.phase = "follow" /\ Aligned
    /\ wifiConnections > hist.twin.wifiConnections /\ hist.twin.wifiConnections > 0
    /\ clientConnections > hist.twin.clientConnections /\ hist.twin.clientConnections > 0
    /\ errors > hist.twin.errors /\ hist.twin.errors > 0
    /\ tx # <<>> /\ connectionState = hist.twin.connectionState

\* the end of a loop pass: the procedures that change the state have run
PassEnd == pc = "heartbeat" \/ (pc = "connectToWiFi" /\ trace # noTrace)

\* the states a pass may end in
PassEndStates ==
    IF role = "client"
    THEN {conn_1_wifiDelayConnection, conn_3_clientDelayConnection, conn_5_requestSent}
    ELSE {conn_1_wifiDelayConnection, conn_2_wifiConnected, conn_3_clientDelayConnection,
          conn_4_clientConnected}

\* C30: the states 6 (stop the connection now) and 7 (report) are left within the loop
\* pass in which they are entered: state 6 exists only between the procedure that
\* entered it and stopTCPconnection, state 7 only between stopTCPconnection and
\* lastConnectionReport; at the end of every loop pass the client is in state 1, 3 or 5
\* and the server in state 1, 2, 3 or 4; the heartbeat never prints state 6 or 7.
C30_TransientStates ==
    /\ connectionState = conn_6_stopClientNow
          => pc \in {"sendRequestToServer", "assembleServerResponse",
                     "assembleClientRequest", "sendResponseToClient", "stopTCPconnection"}
    /\ connectionState = conn_7_report => pc = "lastConnectionReport"
    /\ PassEnd => connectionState \in PassEndStates
    /\ hist.beat \notin {conn_6_stopClientNow, conn_7_report}

\* a pass has stopped the connection, reported and printed the heartbeat, all at the
\* same clock value
C30_Witness ==
    /\ pc = "connectToWiFi" /\ hist.stops > 0
    /\ clientStopTime = now /\ lastHeartbeat = now
    /\ connectionState = conn_3_clientDelayConnection
    /\ hist.beat = conn_3_clientDelayConnection

\* the states in which a transport session exists
TransportStates == {conn_4_clientConnected, conn_5_requestSent, conn_6_stopClientNow}

\* C31: after every procedure of loop(), pin 13 (the 'client connected' led) is HIGH if
\* and only if the state is 4, 5 or 6; it is LOW in the states 0, 1, 2, 3 and 7, also
\* when the link was re-associated while a session existed.
C31_ConnectedIndicator == (pin13 = HIGH) <=> (connectionState \in TransportStates)

\* the link has been re-associated while a session existed that was never stopped
C31_Witness ==
    /\ clientConnections > 0 /\ hist.stops = 0
    /\ connectionState = conn_2_wifiConnected
    /\ pc \in {"connectToServer", "connectToClient"} /\ hist.wifiAttempts > 1
    /\ pin13 = LOW

\* the milliseconds that have passed since the timestamp stamp was taken: near the wrap
\* the held values of the clock and of a timestamp taken there differ by the time that
\* has passed, across the wrap too
SinceStamp(stamp) == now - stamp

\* the time since the timestamp has been followed: near the wrap, that is a timestamp
\* taken there and not one of the first passes of loop() (setupDelay or later)
StampFollowed(stamp) == NearWrap => stamp < setupDelay

\* connectToWiFi runs in state 1, where it waits for the next WiFi.begin()
WifiWaitCall ==
    /\ pc = "connectToWiFi" /\ pc' # pc
    /\ connectionState = conn_1_wifiDelayConnection
    /\ StampFollowed(wifiConnectTime)

\* connectToServer runs in state 3, where it waits for the next client.connect()
ConnectWaitCall ==
    /\ role = "client" /\ pc = "connectToServer" /\ pc' # pc
    /\ connectionState = conn_3_clientDelayConnection
    /\ StampFollowed(clientStopTime)

\* assembleServerResponse runs in state 5 with no byte available
ReadWaitCall ==
    /\ pc = "assembleServerResponse" /\ pc' # pc
    /\ connectionState = conn_5_requestSent /\ Len(rx) = 0
    /\ StampFollowed(startReadingAt)

\* C32: with a clock that wraps, the guards 'timestamp + delay > millis()' and
\* 'timestamp + time-out < millis()' still enforce their delays: a link attempt and a
\* transport attempt are made by the call of the waiting procedure exactly when the
\* delay has passed since the timestamp, and the read time-out is taken exactly when
\* more than the time-out has passed, also when the sum overflows or the clock wraps
\* between the timestamp and the call.
C32_DelaysSurviveClockWrap ==
    [][/\ WifiWaitCall
            => (WifiAttemptStep <=> SinceStamp(wifiConnectTime) >= wifiConnectDelay)
       /\ ConnectWaitCall
            => (ConnectAttemptStep <=> SinceStamp(clientStopTime) >= clientConnectDelay)
       /\ ReadWaitCall
            => (errors' = errors + 1 <=> SinceStamp(startReadingAt) > readingTimeOut)]_vars

====
